---------------------------- MODULE Spec2Model ----------------------------
(***************************************************************************)
(* A model of the document model of ckeditor5-engine: the document tree    *)
(* with its graveyard root, the operations applied to it, Range and its    *)
(* transformations, and the LiveSelection that follows the document.       *)
(*                                                                         *)
(* Paths keep the offsets of the source (0-based); a node of the tree is a *)
(* record [name, data, attrs, children], a text node one character long.   *)
(***************************************************************************)
EXTENDS Integers, Sequences, FiniteSets, TLC

\* ------------------------------------------------------------------ bounds

\* The number of operations applied and methods called in one behaviour.
MaxSteps == 3
\* The number of nodes an operation removes or moves.
MaxHowMany == 2

\* ------------------------------------------------------------- small helpers

Min(S) == CHOOSE x \in S : \A y \in S : x <= y

\* A local constant: Body of the value v, which is computed once.
Let(v, Body(_)) == Body(v)

Front(s) == SubSeq(s, 1, Len(s) - 1)

Last(s) == s[Len(s)]

\* A JavaScript Map: a function of its keys.
EmptyMap == <<>>

MapHas(m, k) == k \in DOMAIN m

MapSet(m, k, v) == [x \in (DOMAIN m) \cup {k} |-> IF x = k THEN v ELSE m[x]]

MapDelete(m, k) == [x \in (DOMAIN m) \ {k} |-> m[x]]

\* Array.prototype.splice( index, 1 ) on a sequence, index 0-based and, as in
\* JavaScript, counted from the end when negative.
SpliceStart(s, index) ==
    IF index < 0 THEN (IF Len(s) + index < 0 THEN 0 ELSE Len(s) + index)
    ELSE (IF index > Len(s) THEN Len(s) ELSE index)

SpliceOut(s, index) ==
    LET st == SpliceStart(s, index)
    IN  IF st < Len(s)
        THEN SubSeq(s, 1, st) \o SubSeq(s, st + 2, Len(s))
        ELSE s

\* The elements splice( index, 1 ) returns: one element, or none.
SpliceRemoved(s, index) ==
    LET st == SpliceStart(s, index)
    IN  IF st < Len(s) THEN <<s[st + 1]>> ELSE <<>>

\* splice( index, 1, item ).
SpliceReplace(s, index, item) ==
    LET st == SpliceStart(s, index)
    IN  IF st < Len(s)
        THEN SubSeq(s, 1, st) \o <<item>> \o SubSeq(s, st + 2, Len(s))
        ELSE s \o <<item>>

\* ------------------------------------------------------------------- nodes

Text(data, attrs) ==
    [name |-> "$text", data |-> data, attrs |-> attrs, children |-> <<>>]

Element(name, children) ==
    [name |-> name, data |-> "", attrs |-> EmptyMap, children |-> children]

IsText(node) == node.name = "$text"

maxOffset(node) == Len(node.children)

RECURSIVE NodeAt(_, _)
\* The node a path of child offsets leads to, starting at `node`.
NodeAt(node, path) ==
    IF path = <<>> THEN node
    ELSE NodeAt(node.children[path[1] + 1], Tail(path))

RECURSIVE HasNodeAt(_, _)
HasNodeAt(node, path) ==
    IF path = <<>> THEN TRUE
    ELSE /\ path[1] >= 0
         /\ path[1] < Len(node.children)
         /\ HasNodeAt(node.children[path[1] + 1], Tail(path))

RECURSIVE WithChildrenAt(_, _, _)
\* `node` with the children of the element at `path` replaced.
WithChildrenAt(node, path, children) ==
    IF path = <<>> THEN [node EXCEPT !.children = children]
    ELSE [node EXCEPT !.children[path[1] + 1] =
              WithChildrenAt(node.children[path[1] + 1], Tail(path), children)]

RECURSIVE WithAttrsAt(_, _, _)
WithAttrsAt(node, path, attrs) ==
    IF path = <<>> THEN [node EXCEPT !.attrs = attrs]
    ELSE [node EXCEPT !.children[path[1] + 1] =
              WithAttrsAt(node.children[path[1] + 1], Tail(path), attrs)]

\* --------------------------------------------------------------- positions

Position(root, path) == [root |-> root, path |-> path]

\* The value of a transformation that has no result (JavaScript null).
NullPosition == [root |-> "null", path |-> <<>>]

offset(pos) == Last(pos.path)

getParentPath(pos) == Front(pos.path)

WithOffset(pos, n) ==
    [pos EXCEPT !.path = Front(pos.path) \o <<n>>]

\* Whether the position points into the tree: its parent exists and its
\* offset is within the parent.
IsValidPosition(rts, pos) ==
    /\ pos.root \in DOMAIN rts
    /\ pos.path # <<>>
    /\ HasNodeAt(rts[pos.root], getParentPath(pos))
    /\ offset(pos) >= 0
    /\ offset(pos) <= maxOffset(NodeAt(rts[pos.root], getParentPath(pos)))

parent(rts, pos) == NodeAt(rts[pos.root], getParentPath(pos))

compareArrays(a, b) ==
    LET minLen == IF Len(a) < Len(b) THEN Len(a) ELSE Len(b)
    IN  Let({i \in 1..minLen : a[i] # b[i]}, LAMBDA diffs :
            IF diffs # {} THEN [kind |-> "index", at |-> Min(diffs)]
            ELSE IF Len(a) = Len(b) THEN [kind |-> "same", at |-> 0]
            ELSE IF Len(a) < Len(b) THEN [kind |-> "prefix", at |-> 0]
            ELSE [kind |-> "extension", at |-> 0])

\* A comparison of the paths alone, whatever the roots.
compareWithPathsOnly(p, q) ==
    Let(compareArrays(p.path, q.path), LAMBDA result :
        CASE result.kind = "same" -> "same"
          [] result.kind = "prefix" -> "before"
          [] result.kind = "extension" -> "after"
          [] OTHER -> IF p.path[result.at] < q.path[result.at]
                      THEN "before" ELSE "after")

compareWith(p, q) ==
    IF p.root # q.root THEN "different"
    ELSE Let(compareArrays(p.path, q.path), LAMBDA result :
             CASE result.kind = "same" -> "same"
               [] result.kind = "prefix" -> "before"
               [] result.kind = "extension" -> "after"
               [] OTHER -> IF p.path[result.at] < q.path[result.at]
                           THEN "before" ELSE "after")

isBefore(p, q) == compareWith(p, q) = "before"

isAfter(p, q) == compareWith(p, q) = "after"

PositionIsEqual(p, q) == compareWith(p, q) = "same"

getShiftedBy(pos, shift) ==
    Let(offset(pos) + shift, LAMBDA n : WithOffset(pos, IF n < 0 THEN 0 ELSE n))

RECURSIVE TouchingLoop(_, _, _)
\* The loop of Position#isTouching: `left` climbs out of the ends of its
\* ancestors, `right` out of the starts of its ancestors, until they meet.
TouchingLoop(rts, left, right) ==
    IF Len(left.path) + Len(right.path) = 0 THEN FALSE
    ELSE IF left.path = right.path THEN TRUE
    ELSE IF Len(left.path) > Len(right.path)
         THEN IF offset(left) # maxOffset(parent(rts, left)) THEN FALSE
              ELSE IF Len(left.path) = 1 THEN FALSE
              ELSE TouchingLoop(rts,
                       [left EXCEPT !.path =
                           Front(Front(left.path)) \o <<left.path[Len(left.path) - 1] + 1>>],
                       right)
         ELSE IF offset(right) # 0 THEN FALSE
              ELSE IF Len(right.path) = 1 THEN FALSE
              ELSE TouchingLoop(rts, left, [right EXCEPT !.path = Front(right.path)])

isTouching(rts, p, q) ==
    Let(compareWith(p, q), LAMBDA compare :
        CASE compare = "same" -> TRUE
          [] compare = "before" -> TouchingLoop(rts, p, q)
          [] compare = "after" -> TouchingLoop(rts, q, p)
          [] OTHER -> FALSE)

PositionTransformedByInsertion(pos, insertPosition, howMany, insertBefore) ==
    IF pos.root # insertPosition.root THEN pos
    ELSE Let(compareArrays(getParentPath(insertPosition), getParentPath(pos)), LAMBDA cmp :
             IF cmp.kind = "same"
             THEN IF \/ offset(insertPosition) < offset(pos)
                     \/ (offset(insertPosition) = offset(pos) /\ insertBefore)
                  THEN WithOffset(pos, offset(pos) + howMany)
                  ELSE pos
             ELSE IF cmp.kind = "prefix"
             THEN LET i == Len(insertPosition.path)
                  IN  IF offset(insertPosition) <= pos.path[i]
                      THEN [pos EXCEPT !.path[i] = @ + howMany]
                      ELSE pos
             ELSE pos)

PositionTransformedByDeletion(pos, deletePosition, howMany) ==
    IF pos.root # deletePosition.root THEN pos
    ELSE Let(compareArrays(getParentPath(deletePosition), getParentPath(pos)), LAMBDA cmp :
             IF cmp.kind = "same"
             THEN IF offset(deletePosition) < offset(pos)
                  THEN IF offset(deletePosition) + howMany > offset(pos)
                       THEN NullPosition
                       ELSE WithOffset(pos, offset(pos) - howMany)
                  ELSE pos
             ELSE IF cmp.kind = "prefix"
             THEN LET i == Len(deletePosition.path)
                  IN  IF offset(deletePosition) <= pos.path[i]
                      THEN IF offset(deletePosition) + howMany > pos.path[i]
                           THEN NullPosition
                           ELSE [pos EXCEPT !.path[i] = @ - howMany]
                      ELSE pos
             ELSE pos)

getCombined(pos, source, target) ==
    LET i == Len(source.path)
    IN  [root |-> target.root,
         path |-> Front(target.path)
                  \o <<offset(target) + pos.path[i] - offset(source)>>
                  \o SubSeq(pos.path, i + 1, Len(pos.path))]

PositionTransformedByMove(pos, sourcePosition, targetPosition, howMany, insertBefore, sticky) ==
    Let(PositionTransformedByDeletion(pos, sourcePosition, howMany), LAMBDA transformed :
    Let(PositionTransformedByDeletion(targetPosition, sourcePosition, howMany), LAMBDA target :
        IF \/ transformed = NullPosition
           \/ (sticky /\ PositionIsEqual(transformed, sourcePosition))
        THEN getCombined(pos, sourcePosition, target)
        ELSE PositionTransformedByInsertion(transformed, target, howMany, insertBefore)))

\* ------------------------------------------------------------------ ranges

Range(start, end) == [start |-> start, end |-> end]

isCollapsed(range) == PositionIsEqual(range.start, range.end)

RangeRoot(range) == range.start.root

\* containsPosition that takes the boundaries of the range as contained.
containsPositionOrBoundary(range, position) ==
    ~isBefore(position, range.start) /\ ~isAfter(position, range.end)

containsPosition(range, position) ==
    isAfter(position, range.start) /\ isBefore(position, range.end)

containsRange(range, otherRange) ==
    containsPosition(range, otherRange.start) /\ containsPosition(range, otherRange.end)

isEqual(range, otherRange) ==
    PositionIsEqual(range.start, otherRange.start) /\ PositionIsEqual(range.end, otherRange.end)

\* isIntersecting that takes ranges that touch as intersecting.
isIntersectingOrTouching(range, otherRange) ==
    ~isAfter(range.start, otherRange.end) /\ ~isBefore(range.end, otherRange.start)

isIntersecting(range, otherRange) ==
    isBefore(range.start, otherRange.end) /\ isAfter(range.end, otherRange.start)

\* getDifference without the tests of what this range contains.
getDifferenceUnchecked(range, otherRange) ==
    IF isIntersecting(range, otherRange)
    THEN <<Range(range.start, otherRange.start), Range(otherRange.end, range.end)>>
    ELSE <<range>>

getDifference(range, otherRange) ==
    IF isIntersecting(range, otherRange)
    THEN (IF containsPosition(range, otherRange.start)
          THEN <<Range(range.start, otherRange.start)>> ELSE <<>>)
         \o
         (IF containsPosition(range, otherRange.end)
          THEN <<Range(otherRange.end, range.end)>> ELSE <<>>)
    ELSE <<range>>

\* getIntersection returns null when the ranges do not intersect.
NullRange == Range(NullPosition, NullPosition)

\* getIntersection that returns this range whenever the ranges intersect.
getIntersectionWhole(range, otherRange) ==
    IF isIntersecting(range, otherRange) THEN range ELSE NullRange

getIntersection(range, otherRange) ==
    IF isIntersecting(range, otherRange)
    THEN Range(IF containsPosition(range, otherRange.start)
               THEN otherRange.start ELSE range.start,
               IF containsPosition(range, otherRange.end)
               THEN otherRange.end ELSE range.end)
    ELSE NullRange

\* _getTransformedByInsertion that transforms the start of the range alone.
getTransformedByInsertionOfStart(range, insertPosition, howMany, spread, isSticky) ==
    << Range(PositionTransformedByInsertion(range.start, insertPosition, howMany, ~isSticky),
             range.end) >>

\* _getTransformedByInsertion that never expands the range: isSticky ignored.
getTransformedByInsertionUnsticky(range, insertPosition, howMany, spread, isSticky) ==
    IF spread /\ containsPosition(range, insertPosition)
    THEN << Range(range.start, insertPosition),
            Range(PositionTransformedByInsertion(insertPosition, insertPosition, howMany, TRUE),
                  PositionTransformedByInsertion(range.end, insertPosition, howMany,
                                                 isCollapsed(range))) >>
    ELSE << Range(PositionTransformedByInsertion(range.start, insertPosition, howMany, TRUE),
                  PositionTransformedByInsertion(range.end, insertPosition, howMany,
                                                 isCollapsed(range))) >>

\* _getTransformedByInsertion that never spreads the range: spread ignored.
getTransformedByInsertionUnspread(range, insertPosition, howMany, spread, isSticky) ==
    << Range(PositionTransformedByInsertion(range.start, insertPosition, howMany,
                                            isCollapsed(range) \/ ~isSticky),
             PositionTransformedByInsertion(range.end, insertPosition, howMany,
                                            isCollapsed(range) \/ isSticky)) >>

\* _getTransformedByInsertion that treats a collapsed range as any other.
getTransformedByInsertionOfBoundaries(range, insertPosition, howMany, spread, isSticky) ==
    IF spread /\ containsPosition(range, insertPosition)
    THEN << Range(range.start, insertPosition),
            Range(PositionTransformedByInsertion(insertPosition, insertPosition, howMany, TRUE),
                  PositionTransformedByInsertion(range.end, insertPosition, howMany, FALSE)) >>
    ELSE << Range(PositionTransformedByInsertion(range.start, insertPosition, howMany,
                                                 ~isSticky),
                  PositionTransformedByInsertion(range.end, insertPosition, howMany,
                                                 isSticky)) >>

getTransformedByInsertion(range, insertPosition, howMany, spread, isSticky) ==
    Let(isCollapsed(range), LAMBDA collapsed :
        IF spread /\ containsPosition(range, insertPosition)
        THEN << Range(range.start, insertPosition),
                Range(PositionTransformedByInsertion(insertPosition, insertPosition, howMany,
                                                     TRUE),
                      PositionTransformedByInsertion(range.end, insertPosition, howMany,
                                                     collapsed)) >>
        ELSE LET insertBeforeStart == IF collapsed THEN TRUE ELSE ~isSticky
                 insertBeforeEnd   == IF collapsed THEN TRUE ELSE isSticky
             IN  << Range(PositionTransformedByInsertion(range.start, insertPosition, howMany,
                                                         insertBeforeStart),
                          PositionTransformedByInsertion(range.end, insertPosition, howMany,
                                                         insertBeforeEnd)) >>)

\* _getTransformedByMove that transforms the two boundaries on their own.
getTransformedByMoveOfBoundaries(range, sourcePosition, targetPosition, howMany) ==
    << Range(PositionTransformedByMove(range.start, sourcePosition, targetPosition,
                                       howMany, TRUE, TRUE),
             PositionTransformedByMove(range.end, sourcePosition, targetPosition,
                                       howMany, TRUE, TRUE)) >>

getTransformedByMove(range, sourcePosition, targetPosition, howMany) ==
    IF isCollapsed(range)
    THEN Let(PositionTransformedByMove(range.start, sourcePosition, targetPosition,
                                       howMany, TRUE, TRUE),
             LAMBDA newPos : <<Range(newPos, newPos)>>)
    ELSE Let(Range(sourcePosition, getShiftedBy(sourcePosition, howMany)), LAMBDA moveRange :
         Let(getDifference(range, moveRange), LAMBDA differenceSet :
         Let(getIntersection(range, moveRange), LAMBDA common :
         Let(IF Len(differenceSet) = 1
             THEN Range(PositionTransformedByDeletion(differenceSet[1].start,
                                                      sourcePosition, howMany),
                        PositionTransformedByDeletion(differenceSet[1].end,
                                                      sourcePosition, howMany))
             ELSE IF Len(differenceSet) = 2
             THEN Range(range.start,
                        PositionTransformedByDeletion(range.end, sourcePosition, howMany))
             ELSE NullRange, LAMBDA difference :
         Let(PositionTransformedByDeletion(targetPosition, sourcePosition, howMany),
             LAMBDA insertPosition :
         Let(IF difference # NullRange
             THEN getTransformedByInsertion(difference, insertPosition, howMany,
                                            common # NullRange, FALSE)
             ELSE <<>>, LAMBDA result :
             IF common # NullRange
             THEN result \o << Range(getCombined(common.start, moveRange.start, insertPosition),
                                     getCombined(common.end, moveRange.start, insertPosition)) >>
             ELSE result))))))

getTransformedByDocumentChange(range, type, targetPosition, howMany, sourcePosition) ==
    IF type = "insert"
    THEN getTransformedByInsertion(range, targetPosition, howMany, FALSE, FALSE)
    ELSE getTransformedByMove(range, sourcePosition, targetPosition, howMany)

RECURSIVE SortInsert(_, _, _)
\* One step of an insertion sort under the comparator of createFromRanges,
\* ( a, b ) => a.start.isAfter( b.start ): index x moves before every index
\* whose range starts after its own.
SortInsert(ranges, sorted, x) ==
    IF sorted = <<>> THEN <<x>>
    ELSE IF isAfter(ranges[Last(sorted)].start, ranges[x].start)
         THEN SortInsert(ranges, Front(sorted), x) \o <<Last(sorted)>>
         ELSE sorted \o <<x>>

RECURSIVE SortedOrder(_, _)
\* The indices 1..n of `ranges` in the order an engine that honours the
\* comparator's positive results leaves them in.
SortedOrder(ranges, n) ==
    IF n = 0 THEN <<>> ELSE SortInsert(ranges, SortedOrder(ranges, n - 1), n)

\* The comparator returns a boolean, never a negative number, so it is not a
\* consistent comparison function and the order after sort() is
\* implementation-defined: `sorts` tells whether the engine orders the
\* array (it treats true as "greater") or leaves it as passed (it only
\* moves an element on a negative result).
OrderAfterSort(ranges, sorts) ==
    IF sorts THEN SortedOrder(ranges, Len(ranges))
    ELSE [i \in 1..Len(ranges) |-> i]

RECURSIVE GlueBefore(_, _, _, _)
\* The loop over the ranges before the reference range. `i` is the 0-based
\* index of the source; it is incremented after each glued range.
GlueBefore(rts, ranges, i, result) ==
    IF i < 0 THEN [err |-> "", range |-> result]
    ELSE IF i >= Len(ranges) THEN [err |-> "TypeError", range |-> result]
    ELSE IF isTouching(rts, ranges[i + 1].end, result.start)
         THEN GlueBefore(rts, ranges, i + 1, [result EXCEPT !.start = ranges[i + 1].start])
         ELSE [err |-> "", range |-> result]

RECURSIVE GlueAfter(_, _, _, _)
GlueAfter(rts, ranges, i, result) ==
    IF i >= Len(ranges) THEN result
    ELSE IF isTouching(rts, ranges[i + 1].start, result.end)
         THEN GlueAfter(rts, ranges, i + 1, [result EXCEPT !.end = ranges[i + 1].end])
         ELSE result

\* createFromRanges that takes any array for an array of several ranges.
createFromSeveralRanges(rts, ranges, sorts) ==
    [err |-> IF ranges = <<>> THEN "TypeError" ELSE "",
     range |-> IF ranges = <<>> THEN NullRange ELSE ranges[1],
     ranges |-> ranges]

\* Range.createFromRanges; the result is [err, range, ranges], `ranges` being
\* the passed array as the call leaves it.
createFromRanges(rts, ranges, sorts) ==
    IF Len(ranges) = 0
    THEN [err |-> "range-create-from-ranges-empty-array", range |-> NullRange,
          ranges |-> ranges]
    ELSE IF Len(ranges) = 1
    THEN [err |-> "", range |-> ranges[1], ranges |-> ranges]
    ELSE Let(OrderAfterSort(ranges, sorts), LAMBDA order :
         Let([i \in 1..Len(ranges) |-> ranges[order[i]]], LAMBDA sorted :
         Let((CHOOSE i \in 1..Len(ranges) : order[i] = 1) - 1, LAMBDA refIndex :
         Let(GlueBefore(rts, sorted, refIndex - 1, ranges[1]), LAMBDA before :
             IF before.err # ""
             THEN [err |-> before.err, range |-> NullRange, ranges |-> sorted]
             ELSE [err |-> "",
                   range |-> GlueAfter(rts, sorted, refIndex + 1, before.range),
                   ranges |-> sorted]))))

\* ---------------------------------------------------------- tree mutation

insertChildren(rts, position, nodes) ==
    Let(parent(rts, position), LAMBDA par :
        LET at  == offset(position)
            ch  == SubSeq(par.children, 1, at) \o nodes
                   \o SubSeq(par.children, at + 1, Len(par.children))
        IN  [rts EXCEPT ![position.root] =
                 WithChildrenAt(rts[position.root], getParentPath(position), ch)])

getChildren(rts, position, howMany) ==
    SubSeq(parent(rts, position).children, offset(position) + 1,
           offset(position) + howMany)

removeChildren(rts, position, howMany) ==
    Let(parent(rts, position), LAMBDA par :
        LET at  == offset(position)
            ch  == SubSeq(par.children, 1, at)
                   \o SubSeq(par.children, at + howMany + 1, Len(par.children))
        IN  [rts EXCEPT ![position.root] =
                 WithChildrenAt(rts[position.root], getParentPath(position), ch)])

RECURSIVE PathsFrom(_, _, _)
\* The paths of the nodes below `node`, whose path is `prefix`, from its
\* k-th child on, in document order (a node before its children).
PathsFrom(node, prefix, k) ==
    IF k > Len(node.children) THEN <<>>
    ELSE <<prefix \o <<k - 1>>>>
         \o PathsFrom(node.children[k], prefix \o <<k - 1>>, 1)
         \o PathsFrom(node, prefix, k + 1)

\* What iterating a range yields: the path of every node the walk from
\* range.start to range.end steps into or over, element ends skipped.
NodesInRange(rts, range) ==
    LET InRange(q) == /\ ~isBefore(Position(range.start.root, q), range.start)
                      /\ isBefore(Position(range.start.root, q), range.end)
    IN  SelectSeq(PathsFrom(rts[range.start.root], <<>>, 1), InRange)

\* -------------------------------------------------------------- operations

NullAttr == [key |-> "null", value |-> "null"]

Attribute(key, value) == [key |-> key, value |-> value]

NoOp == [type |-> "noop", sourcePosition |-> NullPosition, targetPosition |-> NullPosition,
         howMany |-> 0, nodes |-> <<>>, range |-> NullRange,
         oldAttr |-> NullAttr, newAttr |-> NullAttr, baseVersion |-> 0]

InsertOperation(position, nodes, baseVersion) ==
    [NoOp EXCEPT !.type = "insert", !.targetPosition = position, !.nodes = nodes,
                 !.howMany = Len(nodes), !.baseVersion = baseVersion]

MoveOperation(sourcePosition, howMany, targetPosition, baseVersion) ==
    [NoOp EXCEPT !.type = "move", !.sourcePosition = sourcePosition, !.howMany = howMany,
                 !.targetPosition = targetPosition, !.baseVersion = baseVersion]

\* The constructor of RemoveOperation aims at a holder element the operation
\* adds at the end of the graveyard when it is executed.
RemoveOperation(rts, position, howMany, baseVersion) ==
    [NoOp EXCEPT !.type = "remove", !.sourcePosition = position, !.howMany = howMany,
                 !.targetPosition = Position("graveyard", <<maxOffset(rts.graveyard), 0>>),
                 !.baseVersion = baseVersion]

ReinsertOperation(sourcePosition, howMany, targetPosition, baseVersion) ==
    [NoOp EXCEPT !.type = "reinsert", !.sourcePosition = sourcePosition, !.howMany = howMany,
                 !.targetPosition = targetPosition, !.baseVersion = baseVersion]

ChangeOperation(range, oldAttr, newAttr, baseVersion) ==
    [NoOp EXCEPT !.type = "attribute", !.range = range, !.oldAttr = oldAttr,
                 !.newAttr = newAttr, !.baseVersion = baseVersion]

\* A RenameOperation of the element after `position`; oldAttr and newAttr
\* hold its old and its new name.
RenameOperation(position, oldName, newName, baseVersion) ==
    [NoOp EXCEPT !.type = "rename", !.targetPosition = position,
                 !.oldAttr = Attribute("name", oldName),
                 !.newAttr = Attribute("name", newName), !.baseVersion = baseVersion]

\* An attribute operation on a root element; the start of `range` names it.
RootAttributeOperation(root, oldAttr, newAttr, baseVersion) ==
    [NoOp EXCEPT !.type = "rootAttribute",
                 !.range = Range(Position(root, <<>>), Position(root, <<>>)),
                 !.oldAttr = oldAttr, !.newAttr = newAttr, !.baseVersion = baseVersion]

\* The type the document's change event carries for an attribute operation.
AttributeOperationType(op) ==
    IF op.oldAttr = NullAttr THEN "addAttribute"
    ELSE IF op.newAttr = NullAttr THEN "removeAttribute"
    ELSE "changeAttribute"

RootAttributeOperationType(op) ==
    IF op.oldAttr = NullAttr THEN "addRootAttribute"
    ELSE IF op.newAttr = NullAttr THEN "removeRootAttribute"
    ELSE "changeRootAttribute"

hasAttr(node, attr) == MapHas(node.attrs, attr.key) /\ node.attrs[attr.key] = attr.value

hasAttrKey(node, key) == MapHas(node.attrs, key)

RECURSIVE RemoveOrChangeLoop(_, _, _, _, _)
\* The first loop of ChangeOperation._execute, from the i-th node of the
\* range on: [err, root], the root as the loop leaves it.
RemoveOrChangeLoop(root, paths, i, oldAttr, newAttr) ==
    IF i > Len(paths) THEN [err |-> "", root |-> root]
    ELSE IF ~hasAttr(NodeAt(root, paths[i]), oldAttr)
         THEN [err |-> "operation-change-no-attr-to-remove", root |-> root]
         ELSE RemoveOrChangeLoop(
                  IF newAttr = NullAttr
                  THEN WithAttrsAt(root, paths[i],
                                   MapDelete(NodeAt(root, paths[i]).attrs, oldAttr.key))
                  ELSE root,
                  paths, i + 1, oldAttr, newAttr)

RECURSIVE InsertOrChangeLoop(_, _, _, _, _)
\* The second loop of ChangeOperation._execute.
InsertOrChangeLoop(root, paths, i, oldAttr, newAttr) ==
    IF i > Len(paths) THEN [err |-> "", root |-> root]
    ELSE IF oldAttr = NullAttr /\ hasAttrKey(NodeAt(root, paths[i]), newAttr.key)
         THEN [err |-> "operation-change-attr-exists", root |-> root]
         ELSE InsertOrChangeLoop(
                  WithAttrsAt(root, paths[i],
                              MapSet(NodeAt(root, paths[i]).attrs, newAttr.key, newAttr.value)),
                  paths, i + 1, oldAttr, newAttr)

\* ChangeOperation._execute: [err, roots], the trees as the call leaves them.
ChangeOperation_execute(rts, op) ==
    LET r == op.range.start.root
    IN  IF op.oldAttr # NullAttr /\ op.newAttr # NullAttr /\ op.oldAttr.key # op.newAttr.key
        THEN [err |-> "operation-change-different-keys", roots |-> rts]
        ELSE Let(NodesInRange(rts, op.range), LAMBDA paths :
             Let(IF op.oldAttr # NullAttr
                 THEN RemoveOrChangeLoop(rts[r], paths, 1, op.oldAttr, op.newAttr)
                 ELSE [err |-> "", root |-> rts[r]], LAMBDA first :
                 IF first.err # ""
                 THEN [err |-> first.err, roots |-> [rts EXCEPT ![r] = first.root]]
                 ELSE Let(IF op.newAttr # NullAttr
                          THEN InsertOrChangeLoop(first.root, paths, 1, op.oldAttr, op.newAttr)
                          ELSE first, LAMBDA second :
                          [err |-> second.err, roots |-> [rts EXCEPT ![r] = second.root]])))

ChangeOperation_getReversed(op) ==
    ChangeOperation(op.range, op.newAttr, op.oldAttr, op.baseVersion + 1)

RootAttributeOperation_execute(rts, op) ==
    LET r == op.range.start.root
    IN  IF op.oldAttr # NullAttr /\ ~hasAttr(rts[r], op.oldAttr)
        THEN [err |-> "rootattribute-operation-wrong-old-value", roots |-> rts]
        ELSE IF op.oldAttr = NullAttr /\ op.newAttr # NullAttr
                /\ hasAttrKey(rts[r], op.newAttr.key)
        THEN [err |-> "rootattribute-operation-attribute-exists", roots |-> rts]
        ELSE [err |-> "",
              roots |-> [rts EXCEPT ![r].attrs =
                            IF op.newAttr # NullAttr
                            THEN MapSet(@, op.newAttr.key, op.newAttr.value)
                            ELSE MapDelete(@, op.oldAttr.key)]]

RootAttributeOperation_getReversed(op) ==
    RootAttributeOperation(op.range.start.root, op.newAttr, op.oldAttr, op.baseVersion + 1)

InsertOperation_execute(rts, op) ==
    [err |-> "", roots |-> insertChildren(rts, op.targetPosition, op.nodes)]

MoveOperation_execute(rts, op) ==
    LET source == op.sourcePosition
        target == op.targetPosition
    IN  IF ~IsValidPosition(rts, source) \/ ~IsValidPosition(rts, target)
        THEN [err |-> "move-operation-position-invalid", roots |-> rts]
        ELSE IF offset(source) + op.howMany > maxOffset(parent(rts, source))
        THEN [err |-> "move-operation-nodes-do-not-exist", roots |-> rts]
        ELSE IF /\ source.root = target.root
                /\ getParentPath(source) = getParentPath(target)
                /\ offset(source) < offset(target)
                /\ offset(target) < offset(source) + op.howMany
        THEN [err |-> "move-operation-range-into-itself", roots |-> rts]
        ELSE IF /\ source.root = target.root
                /\ compareArrays(getParentPath(source), getParentPath(target)).kind = "prefix"
                /\ target.path[Len(source.path)] >= offset(source)
                /\ target.path[Len(source.path)] < offset(source) + op.howMany
        THEN [err |-> "move-operation-node-into-itself", roots |-> rts]
        ELSE LET nodes == getChildren(rts, source, op.howMany)
                 removed == removeChildren(rts, source, op.howMany)
                 at == PositionTransformedByDeletion(target, source, op.howMany)
             IN  [err |-> "", roots |-> insertChildren(removed, at, nodes)]

\* RemoveOperation._execute first adds its holder element to the graveyard.
RemoveOperation_execute(rts, op) ==
    LET holderElementOffset == op.targetPosition.path[1]
        withHolder == insertChildren(rts, Position("graveyard", <<holderElementOffset>>),
                                     <<Element("$graveyardHolder", <<>>)>>)
        source == IF /\ op.sourcePosition.root = "graveyard"
                     /\ op.sourcePosition.path[1] >= holderElementOffset
                  THEN [op.sourcePosition EXCEPT !.path[1] = @ + 1]
                  ELSE op.sourcePosition
        moved == MoveOperation_execute(withHolder, [op EXCEPT !.sourcePosition = source])
    IN  moved

getMovedRangeStart(op) ==
    PositionTransformedByDeletion(op.targetPosition, op.sourcePosition, op.howMany)

MoveOperation_getReversed(op) ==
    MoveOperation(getMovedRangeStart(op), op.howMany,
                  PositionTransformedByInsertion(op.sourcePosition, op.targetPosition,
                                                 op.howMany, FALSE),
                  op.baseVersion + 1)

InsertOperation_getReversed(rts, op) ==
    RemoveOperation(rts, op.targetPosition, Len(op.nodes), op.baseVersion + 1)

RemoveOperation_getReversed(op) ==
    ReinsertOperation(op.targetPosition, op.howMany, op.sourcePosition, op.baseVersion + 1)

\* A reverse that removes from where the nodes were reinserted from.
ReinsertOperation_getReversedFromSource(rts, op) ==
    RemoveOperation(rts, op.sourcePosition, op.howMany, op.baseVersion + 1)

ReinsertOperation_getReversed(rts, op) ==
    RemoveOperation(rts, op.targetPosition, op.howMany, op.baseVersion + 1)

\* op.getReversed(), the constructors reading the document `rts`.
getReversed(rts, op) ==
    CASE op.type = "insert" -> InsertOperation_getReversed(rts, op)
      [] op.type = "move" -> MoveOperation_getReversed(op)
      [] op.type = "remove" -> RemoveOperation_getReversed(op)
      [] op.type = "reinsert" -> ReinsertOperation_getReversed(rts, op)
      [] op.type = "attribute" -> ChangeOperation_getReversed(op)
      [] op.type = "rootAttribute" -> RootAttributeOperation_getReversed(op)
      [] OTHER -> [op EXCEPT !.baseVersion = @ + 1]

execute(rts, op) ==
    CASE op.type = "insert" -> InsertOperation_execute(rts, op)
      [] op.type = "move" -> MoveOperation_execute(rts, op)
      [] op.type = "remove" -> RemoveOperation_execute(rts, op)
      [] op.type = "reinsert" -> MoveOperation_execute(rts, op)
      [] op.type = "attribute" -> ChangeOperation_execute(rts, op)
      [] op.type = "rootAttribute" -> RootAttributeOperation_execute(rts, op)
      [] OTHER -> [err |-> "", roots |-> rts]

\* The type and data of the change event an executed operation causes:
\* the range its nodes are in afterwards and where they came from.
ChangeOf(op) ==
    CASE op.type = "insert" ->
           [type |-> "insert",
            range |-> Range(op.targetPosition, getShiftedBy(op.targetPosition, op.howMany)),
            sourcePosition |-> NullPosition]
      [] op.type \in {"move", "remove", "reinsert"} ->
           [type |-> op.type,
            range |-> Range(getMovedRangeStart(op),
                            getShiftedBy(getMovedRangeStart(op), op.howMany)),
            sourcePosition |-> op.sourcePosition]
      [] op.type = "attribute" ->
           [type |-> AttributeOperationType(op), range |-> op.range,
            sourcePosition |-> NullPosition]
      [] op.type = "rootAttribute" ->
           [type |-> RootAttributeOperationType(op), range |-> op.range,
            sourcePosition |-> NullPosition]
      [] OTHER -> [type |-> "noop", range |-> NullRange, sourcePosition |-> NullPosition]

\* applyOperation without the check of the base version.
applyOperationUnchecked(rts, ver, op) ==
    Let(execute(rts, op), LAMBDA changes :
        IF changes.err # ""
        THEN [err |-> changes.err, roots |-> changes.roots, version |-> ver]
        ELSE [err |-> "", roots |-> changes.roots, version |-> ver + 1])

\* Document.applyOperation up to the change event: [err, roots, version].
applyOperation(rts, ver, op) ==
    IF op.baseVersion # ver
    THEN [err |-> "model-document-applyOperation-wrong-version", roots |-> rts,
          version |-> ver]
    ELSE Let(execute(rts, op), LAMBDA changes :
             IF changes.err # ""
             THEN [err |-> changes.err, roots |-> changes.roots, version |-> ver]
             ELSE [err |-> "", roots |-> changes.roots, version |-> ver + 1])

\* ------------------------------------------------ positions of the document

RECURSIVE PositionsFrom(_, _, _)
\* The paths of the positions inside `node`, whose path is `prefix`, from
\* offset k on, in document order: the order a TreeWalker steps through.
PositionsFrom(node, prefix, k) ==
    <<prefix \o <<k>>>>
    \o (IF k < Len(node.children)
        THEN (IF IsText(node.children[k + 1]) THEN <<>>
              ELSE PositionsFrom(node.children[k + 1], prefix \o <<k>>, 0))
             \o PositionsFrom(node, prefix, k + 1)
        ELSE <<>>)

\* schema.check( { name: '$text', inside: position } ): text is allowed in
\* paragraphs only.
AllowsText(rts, pos) == IsValidPosition(rts, pos) /\ parent(rts, pos).name = "p"

RECURSIVE NearestLoop(_, _, _, _, _)
\* The loop over combineWalkers( backward, forward ): round n takes the n-th
\* step of the backward walker, then the n-th step of the forward walker.
NearestLoop(rts, root, all, at, n) ==
    IF at - n < 1 /\ at + n > Len(all) THEN NullRange
    ELSE IF at - n >= 1 /\ AllowsText(rts, Position(root, all[at - n]))
    THEN Range(Position(root, all[at - n]), Position(root, all[at - n]))
    ELSE IF at + n <= Len(all) /\ AllowsText(rts, Position(root, all[at + n]))
    THEN Range(Position(root, all[at + n]), Position(root, all[at + n]))
    ELSE NearestLoop(rts, root, all, at, n + 1)

\* Document.getNearestSelectionRange( position ), NullRange for null.
getNearestSelectionRange(rts, position) ==
    IF AllowsText(rts, position) THEN Range(position, position)
    ELSE Let(PositionsFrom(rts[position.root], <<>>, 0), LAMBDA all :
         Let({i \in 1..Len(all) : all[i] = position.path}, LAMBDA here :
             IF here = {} THEN NullRange
             ELSE NearestLoop(rts, position.root, all, Min(here), 1)))

\* Document._getDefaultRange().
getDefaultRange(rts) ==
    LET position == Position("main", <<0>>)
    IN  Let(getNearestSelectionRange(rts, position), LAMBDA nearestRange :
            IF nearestRange # NullRange THEN nearestRange ELSE Range(position, position))

\* -------------------------------------------------------------- live ranges

\* The selection with the live ranges it has created. `liveRanges` holds
\* every LiveRange in creation order, `_ranges` the indices of those the
\* selection holds (0 for undefined); `err` is the error being thrown,
\* `warns` counts the calls of log.warn and `events` lists the events fired.

\* An argument that is no instance of Range.
NotARange == Range(Position("invalid", <<>>), Position("invalid", <<>>))

IsRange(range) == range.start.root # "invalid"

LiveRange(range) == [start |-> range.start, end |-> range.end, attached |-> TRUE]

RangeOf(liveRange) == Range(liveRange.start, liveRange.end)

detach(sel, i) == [sel EXCEPT !.liveRanges[i].attached = FALSE]

Throw(sel, error) == [sel EXCEPT !.err = error]

RECURSIVE KeyList(_)
\* The keys of a Map or of a Set as an iteration visits them, each once.
KeyList(keys) ==
    IF keys = {} THEN <<>>
    ELSE Let(CHOOSE k \in keys : TRUE, LAMBDA key : <<key>> \o KeyList(keys \ {key}))

\* this.fire( name, data ): the event is recorded with the attributes a
\* listener finds on the selection when it is called.
fire(sel, name, keys, directChange) ==
    [sel EXCEPT !.events = @ \o <<[name |-> name, attributeKeys |-> keys,
                                   directChange |-> directChange,
                                   attrs |-> sel._attrs]>>]

\* ------------------------------------------------------------- Selection

Selection_isCollapsed(sel) ==
    Len(sel._ranges) = 1 /\ isCollapsed(RangeOf(sel.liveRanges[sel._ranges[1]]))

\* Selection#anchor and #focus; NullPosition when there are no ranges.
Selection_anchor(sel) ==
    IF Len(sel._ranges) > 0
    THEN LET range == sel.liveRanges[Last(sel._ranges)]
         IN  IF sel._lastRangeBackward THEN range.end ELSE range.start
    ELSE NullPosition

Selection_focus(sel) ==
    IF Len(sel._ranges) > 0
    THEN LET range == sel.liveRanges[Last(sel._ranges)]
         IN  IF sel._lastRangeBackward THEN range.start ELSE range.end
    ELSE NullPosition

RECURSIVE FirstRangeLoop(_, _, _)
FirstRangeLoop(sel, i, first) ==
    IF i > Len(sel._ranges) THEN first
    ELSE Let(RangeOf(sel.liveRanges[sel._ranges[i]]), LAMBDA range :
             FirstRangeLoop(sel, i + 1,
                 IF first = NullRange \/ isBefore(range.start, first.start)
                 THEN range ELSE first))

Selection_getFirstRange(sel) == FirstRangeLoop(sel, 1, NullRange)

\* Selection._checkRange: a range that intersects one of the selection's
\* ranges is not added.
checkRange(sel, range) ==
    IF \E i \in 1..Len(sel._ranges) :
           isIntersecting(range, RangeOf(sel.liveRanges[sel._ranges[i]]))
    THEN Throw(sel, "model-selection-range-intersects")
    ELSE sel

\* ----------------------------------------------------------- LiveSelection

LiveSelection_isCollapsed(sel) ==
    IF Len(sel._ranges) = 0 THEN TRUE ELSE Selection_isCollapsed(sel)

\* Selection#isBackward, which reads the isCollapsed of LiveSelection.
LiveSelection_isBackward(sel) == ~LiveSelection_isCollapsed(sel) /\ sel._lastRangeBackward

anchor(sel, rts) ==
    Let(Selection_anchor(sel), LAMBDA super :
        IF super # NullPosition THEN super ELSE getDefaultRange(rts).start)

focus(sel, rts) ==
    Let(Selection_focus(sel), LAMBDA super :
        IF super # NullPosition THEN super ELSE getDefaultRange(rts).start)

\* The number of ranges the selection holds, with no default range.
rangeCountOfHeld(sel) == Len(sel._ranges)

rangeCount(sel) == IF Len(sel._ranges) > 0 THEN Len(sel._ranges) ELSE 1

getRanges(sel, rts) ==
    IF Len(sel._ranges) > 0
    THEN [i \in 1..Len(sel._ranges) |-> RangeOf(sel.liveRanges[sel._ranges[i]])]
    ELSE <<getDefaultRange(rts)>>

getFirstRange(sel, rts) ==
    Let(Selection_getFirstRange(sel), LAMBDA super :
        IF super # NullRange THEN super ELSE getDefaultRange(rts))

getFirstPosition(sel, rts) == getFirstRange(sel, rts).start

\* LiveSelection._removeRangeAtIndex: this._ranges.splice( index, 1 )[ 0 ].detach().
removeRangeAtIndex(sel, index) ==
    Let(SpliceRemoved(sel._ranges, index), LAMBDA removed :
    Let([sel EXCEPT !._ranges = SpliceOut(sel._ranges, index)], LAMBDA spliced :
        IF removed = <<>> \/ removed = <<0>> THEN Throw(spliced, "TypeError")
        ELSE detach(spliced, removed[1])))

\* LiveSelection._popRange: this._ranges.pop().detach().
popRange(sel) == removeRangeAtIndex(sel, Len(sel._ranges) - 1)

RECURSIVE removeAllRangesLoop(_)
\* Selection._removeAllRanges.
removeAllRangesLoop(sel) ==
    IF sel.err # "" \/ Len(sel._ranges) = 0 THEN sel
    ELSE removeAllRangesLoop(popRange(sel))

\* The attribute keys in use and the prefix under which an element stores
\* the attributes of a selection collapsed in it.
Keys == {"bold", "italic"}

getStoreAttributeKey(key) == "selection:" \o key

\* LiveSelection._getStoredAttributes as a map.
getStoredAttributes(sel, rts) ==
    Let(parent(rts, getFirstPosition(sel, rts)), LAMBDA selectionParent :
        LET stored == {k \in Keys : getStoreAttributeKey(k) \in DOMAIN selectionParent.attrs}
        IN  IF LiveSelection_isCollapsed(sel) /\ Len(selectionParent.children) = 0
            THEN [k \in stored |-> selectionParent.attrs[getStoreAttributeKey(k)]]
            ELSE EmptyMap)

\* LiveSelection._getSurroundingAttributes as a map.
getSurroundingAttributes(sel, rts) ==
    IF ~LiveSelection_isCollapsed(sel)
    THEN Let(getFirstRange(sel, rts), LAMBDA range :
         Let(NodesInRange(rts, range), LAMBDA nodes :
         Let({i \in 1..Len(nodes) : IsText(NodeAt(rts[range.start.root], nodes[i]))},
             LAMBDA texts :
             IF texts = {} THEN EmptyMap
             ELSE NodeAt(rts[range.start.root], nodes[Min(texts)]).attrs)))
    ELSE Let(getFirstPosition(sel, rts), LAMBDA position :
         Let(parent(rts, position).children, LAMBDA ch :
         Let(offset(position), LAMBDA at :
         \* Steps 2 and 4 look at the node before the caret and then at its
         \* previous siblings, steps 3 and 5 at the node after it and then
         \* at its next siblings.
         Let({i \in 1..at : IsText(ch[i])}, LAMBDA before :
         Let({i \in (at + 1)..Len(ch) : IsText(ch[i])}, LAMBDA after :
             LET Max(S) == CHOOSE x \in S : \A y \in S : x >= y
             IN  IF at \in before THEN ch[at].attrs
                 ELSE IF (at + 1) \in after THEN ch[at + 1].attrs
                 ELSE IF before # {} THEN ch[Max(before)].attrs
                 ELSE IF after # {} /\ at < Len(ch) THEN ch[Min(after)].attrs
                 ELSE getStoredAttributes(sel, rts))))))

\* _setAttribute without the check of the priority.
setAttributeInternalAnyPriority(sel, key, value, directChange) ==
    IF MapHas(sel._attrs, key) /\ sel._attrs[key] = value
    THEN [sel |-> sel, changed |-> FALSE]
    ELSE [sel |-> [sel EXCEPT !._attrs = MapSet(@, key, value),
                              !._attributePriority =
                                  MapSet(@, key, IF directChange THEN "normal" ELSE "low")],
          changed |-> TRUE]

\* LiveSelection._setAttribute: [sel, changed].
setAttributeInternal(sel, key, value, directChange) ==
    LET priority == IF directChange THEN "normal" ELSE "low"
    IN  IF /\ priority = "low"
           /\ MapHas(sel._attributePriority, key)
           /\ sel._attributePriority[key] = "normal"
        THEN [sel |-> sel, changed |-> FALSE]
        ELSE IF MapHas(sel._attrs, key) /\ sel._attrs[key] = value
        THEN [sel |-> sel, changed |-> FALSE]
        ELSE [sel |-> [sel EXCEPT !._attrs = MapSet(@, key, value),
                                  !._attributePriority = MapSet(@, key, priority)],
              changed |-> TRUE]

\* _removeAttribute that reports a change also when the selection has no
\* such attribute.
removeAttributeInternalReportingChange(sel, key, directChange) ==
    [sel |-> [sel EXCEPT !._attrs = MapDelete(@, key),
                         !._attributePriority =
                             MapSet(@, key, IF directChange THEN "normal" ELSE "low")],
     changed |-> TRUE]

\* LiveSelection._removeAttribute: [sel, changed].
removeAttributeInternal(sel, key, directChange) ==
    LET priority == IF directChange THEN "normal" ELSE "low"
    IN  IF /\ priority = "low"
           /\ MapHas(sel._attributePriority, key)
           /\ sel._attributePriority[key] = "normal"
        THEN [sel |-> sel, changed |-> FALSE]
        ELSE IF ~MapHas(sel._attrs, key)
        THEN [sel |-> sel, changed |-> FALSE]
        ELSE [sel |-> [sel EXCEPT !._attrs = MapDelete(@, key),
                                  !._attributePriority = MapSet(@, key, priority)],
              changed |-> TRUE]

\* What a step of the loops of _setAttributesTo leaves: the selection and
\* the keys added to `changed`.
Changed(done, step, key) ==
    [sel |-> step.sel,
     changed |-> IF step.changed THEN done.changed \cup {key} ELSE done.changed]

RECURSIVE SetAttributesToRemoveLoop(_, _, _, _)
\* The first loop of LiveSelection._setAttributesTo over the keys `todo`.
SetAttributesToRemoveLoop(done, todo, attrs, directChange) ==
    IF todo = {} THEN done
    ELSE Let(CHOOSE k \in todo : TRUE, LAMBDA oldKey :
             SetAttributesToRemoveLoop(
                 IF MapHas(attrs, oldKey) /\ attrs[oldKey] = done.sel._attrs[oldKey]
                 THEN done
                 ELSE Changed(done, removeAttributeInternal(done.sel, oldKey, directChange),
                              oldKey),
                 todo \ {oldKey}, attrs, directChange))

RECURSIVE SetAttributesToSetLoop(_, _, _, _)
\* The second loop of LiveSelection._setAttributesTo.
SetAttributesToSetLoop(done, todo, attrs, directChange) ==
    IF todo = {} THEN done
    ELSE Let(CHOOSE k \in todo : TRUE, LAMBDA key :
             SetAttributesToSetLoop(
                 Changed(done, setAttributeInternal(done.sel, key, attrs[key], directChange),
                         key),
                 todo \ {key}, attrs, directChange))

\* LiveSelection._setAttributesTo: [sel, changed], changed the set of the
\* keys it returns.
setAttributesToInternal(sel, attrs, directChange) ==
    SetAttributesToSetLoop(
        SetAttributesToRemoveLoop([sel |-> sel, changed |-> {}], DOMAIN sel._attrs,
                                  attrs, directChange),
        DOMAIN attrs, attrs, directChange)

\* LiveSelection._updateAttributes( clearAll ).
updateAttributes(sel, rts, clearAll) ==
    LET oldAttributes == sel._attrs
    IN  Let(getSurroundingAttributes(sel, rts), LAMBDA newAttributes :
        Let({k \in DOMAIN sel._attributePriority : sel._attributePriority[k] = "low"},
            LAMBDA low :
        Let(IF clearAll
            THEN [sel EXCEPT !._attributePriority = EmptyMap, !._attrs = EmptyMap]
            ELSE [sel EXCEPT !._attrs = [k \in (DOMAIN @) \ low |-> @[k]],
                             !._attributePriority = [k \in (DOMAIN @) \ low |-> @[k]]],
            LAMBDA cleared :
        Let(setAttributesToInternal(cleared, newAttributes, FALSE).sel, LAMBDA set :
        Let(KeyList({k \in DOMAIN set._attrs :
                        ~MapHas(oldAttributes, k) \/ oldAttributes[k] # set._attrs[k]})
            \o KeyList({k \in DOMAIN oldAttributes : ~MapHas(set._attrs, k)}),
            LAMBDA changed :
            IF Len(changed) > 0 THEN fire(set, "change:attribute", changed, FALSE)
            ELSE set)))))

refreshAttributes(sel, rts) == updateAttributes(sel, rts, TRUE)

\* _prepareRange without the check of the root of the range.
prepareRangeInAnyRoot(sel, range) ==
    IF ~IsRange(range)
    THEN [sel |-> Throw(sel, "model-selection-added-not-range"), liveRange |-> 0]
    ELSE Let(checkRange(sel, range), LAMBDA checked :
             IF checked.err # "" THEN [sel |-> checked, liveRange |-> 0]
             ELSE [sel |-> [sel EXCEPT !.liveRanges = Append(@, LiveRange(range))],
                   liveRange |-> Len(sel.liveRanges) + 1])

\* _prepareRange that warns of an argument that is no Range and skips it.
prepareRangeWarnsOfAnyType(sel, range) ==
    IF ~IsRange(range) \/ RangeRoot(range) = "graveyard"
    THEN [sel |-> [sel EXCEPT !.warns = @ + 1], liveRange |-> 0]
    ELSE Let(checkRange(sel, range), LAMBDA checked :
             IF checked.err # "" THEN [sel |-> checked, liveRange |-> 0]
             ELSE [sel |-> [sel EXCEPT !.liveRanges = Append(@, LiveRange(range))],
                   liveRange |-> Len(sel.liveRanges) + 1])

\* LiveSelection._prepareRange: [sel, liveRange], liveRange the index of the
\* created LiveRange, 0 when the method returns undefined or throws.
prepareRange(sel, range) ==
    IF ~IsRange(range)
    THEN [sel |-> Throw(sel, "model-selection-added-not-range"), liveRange |-> 0]
    ELSE IF RangeRoot(range) = "graveyard"
    THEN [sel |-> [sel EXCEPT !.warns = @ + 1], liveRange |-> 0]
    ELSE Let(checkRange(sel, range), LAMBDA checked :
             IF checked.err # "" THEN [sel |-> checked, liveRange |-> 0]
             ELSE [sel |-> [sel EXCEPT !.liveRanges = Append(@, LiveRange(range))],
                   liveRange |-> Len(sel.liveRanges) + 1])

\* LiveSelection._pushRange.
pushRange(sel, range) ==
    Let(prepareRange(sel, range), LAMBDA prepared :
        IF prepared.liveRange # 0
        THEN [prepared.sel EXCEPT !._ranges = Append(@, prepared.liveRange)]
        ELSE prepared.sel)

\* LiveSelection._fixGraveyardSelection( gyRange, oldRange ), gyRange the
\* index of the live range.
fixGraveyardSelection(sel, rts, gyRange, oldRange) ==
    LET gyPath == sel.liveRanges[gyRange].start.path
        newPathLength == Len(oldRange.start.path) - (Len(gyPath) - 2)
    IN  Let(SubSeq(oldRange.start.path, 1, newPathLength), LAMBDA sliced :
        Let(Position(RangeRoot(oldRange), [sliced EXCEPT ![Len(sliced)] = @ - gyPath[2]]),
            LAMBDA newPosition :
        Let(getNearestSelectionRange(rts, newPosition), LAMBDA nearest :
        Let(IF nearest # NullRange THEN nearest
            ELSE Range(Position(newPosition.root, <<0>>), Position(newPosition.root, <<0>>)),
            LAMBDA selectionRange :
        Let(prepareRange(sel, selectionRange), LAMBDA prepared :
        Let(IF \E i \in 1..Len(sel._ranges) : sel._ranges[i] = gyRange
            THEN Min({i \in 1..Len(sel._ranges) : sel._ranges[i] = gyRange}) - 1
            ELSE -1, LAMBDA index :
        Let(removeRangeAtIndex(prepared.sel, index), LAMBDA removed :
            IF prepared.sel.err # "" THEN prepared.sel
            ELSE IF removed.err # "" THEN removed
            ELSE [removed EXCEPT
                     !._ranges = SpliceReplace(@, index, prepared.liveRange)])))))))

\* The listener LiveSelection._prepareRange adds to the change event of the
\* live range it creates.
onLiveRangeChange(sel, rts, liveRange, oldRange) ==
    Let(IF sel.liveRanges[liveRange].start.root = "graveyard"
        THEN fixGraveyardSelection(sel, rts, liveRange, oldRange)
        ELSE sel, LAMBDA fixed :
        IF fixed.err # "" THEN fixed
        ELSE fire(fixed, "change:range", <<>>, FALSE))

\* The types of change a LiveRange follows.
supportedTypes == {"insert", "move", "remove", "reinsert"}

\* The listener a LiveRange adds to the change event of its document: the
\* range transforms itself by the change and fires its own change event
\* when its boundaries have changed.
transform(sel, rts, liveRange, change, sorts) ==
    IF change.type \notin supportedTypes THEN sel
    ELSE Let(RangeOf(sel.liveRanges[liveRange]), LAMBDA this :
         Let(offset(change.range.end) - offset(change.range.start), LAMBDA howMany :
         Let(IF change.type = "insert" THEN change.range.start
             ELSE PositionTransformedByInsertion(change.range.start, change.sourcePosition,
                                                 howMany, FALSE), LAMBDA targetPosition :
         Let(getTransformedByDocumentChange(this, change.type, targetPosition,
                                            howMany, change.sourcePosition), LAMBDA ranges :
         Let(createFromRanges(rts, ranges, sorts), LAMBDA result :
             IF result.err # "" THEN Throw(sel, result.err)
             ELSE IF isEqual(result.range, this) THEN sel
             ELSE onLiveRangeChange(
                      [sel EXCEPT !.liveRanges[liveRange].start = result.range.start,
                                  !.liveRanges[liveRange].end = result.range.end],
                      rts, liveRange, this))))))

RECURSIVE LiveRangeListeners(_, _, _, _, _)
\* The listeners of the live ranges in `listeners`, a list of indices, from
\* the i-th on; an error thrown by one ends the event.
LiveRangeListeners(sel, rts, listeners, change, sorts) ==
    IF listeners = <<>> \/ sel.err # "" THEN sel
    ELSE LiveRangeListeners(transform(sel, rts, Head(listeners), change, sorts),
                            rts, Tail(listeners), change, sorts)

\* The types of change after which the selection updates its attributes.
attrOpTypes == {"addAttribute", "removeAttribute", "changeAttribute",
                "addRootAttribute", "removeRootAttribute", "changeRootAttribute"}

\* A change event that reaches the listener of every live range, detached
\* or not.
fireChangeToEveryRange(sel, rts, change, sorts) ==
    Let(LiveRangeListeners(sel, rts, [i \in 1..Len(sel.liveRanges) |-> i], change, sorts),
        LAMBDA transformed :
            IF transformed.err # "" THEN transformed
            ELSE IF sel.listening /\ change.type \in attrOpTypes
            THEN updateAttributes(transformed, rts, FALSE)
            ELSE transformed)

\* document.fire( 'change', type, changes ): the listeners of the live ranges
\* attached when the event starts (they listen with high priority), then
\* the listener of the selection.
fireChange(sel, rts, change, sorts) ==
    LET listeners == SelectSeq([i \in 1..Len(sel.liveRanges) |-> i],
                               LAMBDA i : sel.liveRanges[i].attached)
    IN  Let(LiveRangeListeners(sel, rts, listeners, change, sorts), LAMBDA transformed :
            IF transformed.err # "" THEN transformed
            ELSE IF sel.listening /\ change.type \in attrOpTypes
            THEN updateAttributes(transformed, rts, FALSE)
            ELSE transformed)

\* ------------------------------------------------- the selection's methods

\* Selection.addRange, then LiveSelection.addRange refreshes the attributes.
addRange(sel, rts, range, isBackward) ==
    Let(pushRange(sel, range), LAMBDA pushed :
        IF pushed.err # "" THEN pushed
        ELSE refreshAttributes(
                 fire([pushed EXCEPT !._lastRangeBackward = isBackward],
                      "change:range", <<>>, TRUE),
                 rts))

removeAllRanges(sel, rts) ==
    LET removed == IF Len(sel._ranges) > 0
                   THEN fire(removeAllRangesLoop(sel), "change:range", <<>>, TRUE)
                   ELSE sel
    IN  refreshAttributes(removed, rts)

RECURSIVE PushRanges(_, _)
PushRanges(sel, newRanges) ==
    IF newRanges = <<>> \/ sel.err # "" THEN sel
    ELSE PushRanges(pushRange(sel, Head(newRanges)), Tail(newRanges))

setRanges(sel, rts, newRanges, isLastBackward) ==
    Let(PushRanges(removeAllRangesLoop(sel), newRanges), LAMBDA pushed :
        IF pushed.err # "" THEN pushed
        ELSE refreshAttributes(
                 fire([pushed EXCEPT !._lastRangeBackward = isLastBackward],
                      "change:range", <<>>, TRUE),
                 rts))

collapse(sel, rts, position) == setRanges(sel, rts, <<Range(position, position)>>, FALSE)

setFocus(sel, rts, newFocus) ==
    IF compareWith(newFocus, focus(sel, rts)) = "same" THEN sel
    ELSE Let(anchor(sel, rts), LAMBDA oldAnchor :
         Let(IF Len(sel._ranges) > 0 THEN popRange(sel) ELSE sel, LAMBDA popped :
         Let(compareWith(newFocus, oldAnchor) = "before", LAMBDA backward :
             addRange(popped, rts,
                      IF backward THEN Range(newFocus, oldAnchor)
                      ELSE Range(oldAnchor, newFocus),
                      backward))))

RECURSIVE destroyLoop(_)
destroyLoop(sel) ==
    IF sel.err # "" \/ Len(sel._ranges) = 0 THEN sel
    ELSE destroyLoop(popRange(sel))

destroy(sel) == [destroyLoop(sel) EXCEPT !.listening = FALSE]

\* The operation batch.setAttribute( element, key, value ) applies, value
\* "null" to remove the attribute: none (NoOp) when the element has the
\* value already. The range covers the element's opening tag only.
changeItem(rts, ver, position, key, value) ==
    Let(parent(rts, position), LAMBDA item :
    Let(getParentPath(position), LAMBDA path :
    Let(IF MapHas(item.attrs, key) THEN item.attrs[key] ELSE "null", LAMBDA previousValue :
    Let(IF previousValue = "null" THEN NullAttr ELSE Attribute(key, previousValue),
        LAMBDA oldAttr :
    Let(IF value = "null" THEN NullAttr ELSE Attribute(key, value), LAMBDA newAttr :
        IF previousValue = value THEN NoOp
        ELSE IF path = <<>> THEN RootAttributeOperation(position.root, oldAttr, newAttr, ver)
        ELSE ChangeOperation(Range(Position(position.root, path),
                                   Position(position.root, path \o <<0>>)),
                             oldAttr, newAttr, ver))))))

\* Whether the selection keeps its attributes on its parent element.
storesAttributes(sel, rts) ==
    /\ LiveSelection_isCollapsed(sel)
    /\ Len(parent(rts, anchor(sel, rts)).children) = 0

RECURSIVE StoreLoop(_, _, _)
\* The calls batch.setAttribute( selectionParent, storeKey, value ) and
\* batch.removeAttribute( selectionParent, storeKey ), value "null", for the
\* pairs `todo` of a key and a value: each applies an operation to the
\* document, which fires its change event.
StoreLoop(doc, position, todo) ==
    IF todo = <<>> THEN doc
    ELSE Let(changeItem(doc.roots, doc.version, position,
                        getStoreAttributeKey(Head(todo)[1]), Head(todo)[2]), LAMBDA op :
         Let(applyOperation(doc.roots, doc.version, op), LAMBDA result :
             StoreLoop(IF op = NoOp THEN doc
                       ELSE [roots |-> result.roots, version |-> result.version,
                             applied |-> doc.applied + 1,
                             sel |-> fireChange(doc.sel, result.roots, ChangeOf(op), FALSE)],
                       position, Tail(todo))))

\* LiveSelection._setStoredAttributesTo( attrs ).
setStoredAttributesTo(doc, attrs) ==
    Let(anchor(doc.sel, doc.roots), LAMBDA position :
    Let(KeyList(DOMAIN getStoredAttributes(doc.sel, doc.roots)), LAMBDA stored :
    Let(KeyList(DOMAIN attrs), LAMBDA keys :
        StoreLoop(StoreLoop(doc, position, [i \in 1..Len(stored) |-> <<stored[i], "null">>]),
                  position, [i \in 1..Len(keys) |-> <<keys[i], attrs[keys[i]]>>]))))

\* LiveSelection.setAttributesTo( attrs ) on the document [roots, version,
\* applied, sel].
setAttributesTo(doc, attrs) ==
    Let(IF storesAttributes(doc.sel, doc.roots) THEN setStoredAttributesTo(doc, attrs)
        ELSE doc, LAMBDA stored :
    Let(setAttributesToInternal(stored.sel, attrs, TRUE), LAMBDA set :
        [stored EXCEPT !.sel = IF Cardinality(set.changed) > 0
                               THEN fire(set.sel, "change:attribute",
                                         KeyList(set.changed), TRUE)
                               ELSE set.sel]))

\* ------------------------------------------------------------------- state

VARIABLES
    roots,                \* the root elements of the document, by name
    version,              \* document.version
    liveRanges,           \* the live ranges the selection has created
    _ranges,              \* selection._ranges
    _lastRangeBackward,   \* selection._lastRangeBackward
    _attrs,               \* selection._attrs
    _attributePriority,   \* selection._attributePriority
    listening,            \* whether the selection listens to the document
    steps,                \* the number of operations applied and methods called
    applied,              \* the number of operations applied successfully
    last                  \* the last call: its arguments and what it did

vars == <<roots, version, liveRanges, _ranges, _lastRangeBackward, _attrs,
          _attributePriority, listening, steps, applied, last>>

\* The selection as the methods above take it, at the start of a call.
Sel ==
    [liveRanges |-> liveRanges, _ranges |-> _ranges,
     _lastRangeBackward |-> _lastRangeBackward, _attrs |-> _attrs,
     _attributePriority |-> _attributePriority, listening |-> listening,
     warns |-> 0, err |-> "", events |-> <<>>]

SetSel(sel) ==
    /\ liveRanges' = sel.liveRanges
    /\ _ranges' = sel._ranges
    /\ _lastRangeBackward' = sel._lastRangeBackward
    /\ _attrs' = sel._attrs
    /\ _attributePriority' = sel._attributePriority
    /\ listening' = sel.listening

NoCall ==
    [call |-> "none", err |-> "", listenerErr |-> "", warns |-> 0, events |-> <<>>,
     range |-> NullRange, key |-> "", value |-> "", op |-> NoOp, baseVersion |-> 0,
     before |-> <<>>, beforeVersion |-> 0]

\* What a call of a method of the selection leaves in `last`.
Called(name, sel) ==
    [NoCall EXCEPT !.call = name, !.err = sel.err, !.warns = sel.warns,
                   !.events = sel.events]

p(text) == Element("p", [i \in 1..Len(text) |-> Text(text[i], EmptyMap)])

Init ==
    /\ roots = [main |-> Element("$root", <<p(<<"a", "b">>), p(<<"c">>)>>),
                graveyard |-> Element("$root", <<>>)]
    /\ version = 0
    /\ liveRanges = <<>>
    /\ _ranges = <<>>
    /\ _lastRangeBackward = FALSE
    /\ _attrs = EmptyMap
    /\ _attributePriority = EmptyMap
    /\ listening = TRUE
    /\ steps = 0
    /\ applied = 0
    /\ last = NoCall

\* ------------------------------------------------------------------ inputs

MainPositions(rts) ==
    Let(PositionsFrom(rts.main, <<>>, 0), LAMBDA all :
        {Position("main", all[i]) : i \in 1..Len(all)})

\* The runs of howMany nodes that start at one of the positions.
Runs(rts, positions) ==
    {run \in positions \X (1..MaxHowMany) :
        offset(run[1]) + run[2] <= maxOffset(parent(rts, run[1]))}

\* The positions that take the nodes: text goes into paragraphs, paragraphs
\* into the root.
Targets(positions, nodes) ==
    {pos \in positions : (Len(pos.path) = 1) <=> (nodes # <<>> /\ ~IsText(nodes[1]))}

AttrPairs ==
    {<<NullAttr, Attribute("bold", "true")>>,
     <<Attribute("bold", "true"), NullAttr>>,
     <<Attribute("bold", "true"), Attribute("bold", "false")>>}

\* The operations applied to the document rts, with base version bv.
DocOps(rts, bv) ==
    Let(MainPositions(rts), LAMBDA positions :
    Let(Runs(rts, positions), LAMBDA runs :
    Let({h \in 1..Len(rts.graveyard.children) : rts.graveyard.children[h].children # <<>>},
        LAMBDA holders :
        {InsertOperation(pos, <<Text("x", EmptyMap)>>, bv) : pos \in Targets(positions, <<>>)}
        \cup {InsertOperation(pos, <<p(<<>>)>>, bv) : pos \in Targets(positions, <<p(<<>>)>>)}
        \cup {RemoveOperation(rts, run[1], run[2], bv) : run \in runs}
        \cup UNION {{MoveOperation(run[1], run[2], pos, bv) :
                        pos \in Targets(positions, getChildren(rts, run[1], run[2]))} :
                    run \in runs}
        \cup UNION {{ReinsertOperation(Position("graveyard", <<h - 1, 0>>),
                                       Len(rts.graveyard.children[h].children), pos, bv) :
                        pos \in Targets(positions, rts.graveyard.children[h].children)} :
                    h \in holders}
        \cup {ChangeOperation(Range(run[1], getShiftedBy(run[1], run[2])),
                              pair[1], pair[2], bv) :
                 run \in runs, pair \in AttrPairs})))

\* The operations applied while the selection is in use: one node removed,
\* a character inserted at or moved from the start of the first paragraph,
\* removed nodes reinserted, an attribute of the first character changed.
SelOps(rts, bv) ==
    {op \in DocOps(rts, bv) :
        \/ op.type = "insert" /\ op.targetPosition.path = <<0, 0>>
        \/ op.type = "remove" /\ op.howMany = 1
        \/ op.type = "move" /\ op.sourcePosition.path = <<0, 0>> /\ op.howMany = 1
                            /\ op.targetPosition.path = <<1, 0>>
        \/ op.type = "reinsert" /\ offset(op.targetPosition) = 0
        \/ op.type = "attribute" /\ op.range.start.path = <<0, 0>>
                                 /\ op.range.end.path = <<0, 1>>
                                 /\ op.oldAttr.value # "false" /\ op.newAttr.value # "false"}

\* The ranges given to the selection: carets in the first and in the second
\* paragraph, and ranges in and over the paragraphs.
SelRanges(rts) ==
    {range \in {Range(Position("main", <<0, 0>>), Position("main", <<0, 0>>)),
                Range(Position("main", <<1, 1>>), Position("main", <<1, 1>>)),
                Range(Position("main", <<0, 0>>), Position("main", <<0, 1>>)),
                Range(Position("main", <<1, 0>>), Position("main", <<1, 1>>)),
                Range(Position("main", <<0, 0>>), Position("main", <<1>>))} :
        IsValidPosition(rts, range.start) /\ IsValidPosition(rts, range.end)}

\* Range.createIn( document.graveyard ).
GraveyardRange(rts) ==
    Range(Position("graveyard", <<0>>), Position("graveyard", <<maxOffset(rts.graveyard)>>))

\* The lists of ranges given to setRanges.
RangeLists(rts) ==
    {<<>>, <<NotARange>>}
    \cup {<<range>> : range \in SelRanges(rts)}
    \cup {<<pair[1], pair[2]>> :
             pair \in {q \in SelRanges(rts) \X (SelRanges(rts) \cup {NotARange}) :
                          /\ isCollapsed(q[1])
                          /\ q[2].start.path = <<1, 0>> \/ q[2] = NotARange}}

\* ----------------------------------------------------------------- actions

\* document.applyOperation( op ) and the change event it fires.
Apply(name, op, sorts, before, beforeVersion) ==
    Let(applyOperation(roots, version, op), LAMBDA result :
    Let(IF result.err = "" THEN fireChange(Sel, result.roots, ChangeOf(op), sorts) ELSE Sel,
        LAMBDA sel :
        /\ roots' = result.roots
        /\ version' = result.version
        /\ applied' = IF result.err = "" THEN applied + 1 ELSE applied
        /\ SetSel(sel)
        /\ last' = [Called(name, sel) EXCEPT !.err = result.err, !.listenerErr = sel.err,
                                             !.op = IF result.err = "" THEN op ELSE NoOp,
                                             !.baseVersion = op.baseVersion,
                                             !.before = before,
                                             !.beforeVersion = beforeVersion]
        /\ steps' = steps + 1))

\* How Array.prototype.sort treats the comparator of createFromRanges: a
\* choice of the engine, of no effect while no live range is attached.
Engines ==
    IF \E i \in 1..Len(liveRanges) : liveRanges[i].attached THEN BOOLEAN ELSE {TRUE}

ApplyOperation ==
    /\ steps < MaxSteps
    /\ \E sorts \in Engines :
          \E op \in SelOps(roots, version) :
              Apply("applyOperation", op, sorts, roots, version)

\* As ApplyOperation, with any operation.
ApplyAnyOperation ==
    /\ steps < MaxSteps
    /\ \E op \in DocOps(roots, version) :
          Apply("applyOperation", op, TRUE, roots, version)

\* An operation is applied whose base version is not the document's.
ApplyStale ==
    /\ steps < MaxSteps
    /\ \E bv \in {version - 1, version + 1} :
          \E op \in {o \in SelOps(roots, bv) : o.type \in {"insert", "attribute"}} :
              Apply("applyOperation", op, TRUE, roots, version)

\* The operation just applied is undone: its reverse is applied.
ApplyReversed ==
    /\ steps < MaxSteps
    /\ last.call = "applyOperation"
    /\ last.err = ""
    /\ \E sorts \in Engines :
          Apply("applyReversed", getReversed(roots, last.op), sorts,
                last.before, last.beforeVersion)

\* A call of a method of the selection that leaves the document alone.
CallSel(name, sel, range) ==
    /\ SetSel(sel)
    /\ last' = [Called(name, sel) EXCEPT !.range = range]
    /\ steps' = steps + 1
    /\ UNCHANGED <<roots, version, applied>>

AddRange ==
    /\ steps < MaxSteps /\ listening
    /\ \E range \in SelRanges(roots) \cup {NotARange, GraveyardRange(roots)} :
          \E isBackward \in IF isCollapsed(range) THEN {FALSE} ELSE BOOLEAN :
              CallSel("addRange", addRange(Sel, roots, range, isBackward), range)

RemoveAllRanges ==
    /\ steps < MaxSteps /\ listening
    /\ CallSel("removeAllRanges", removeAllRanges(Sel, roots), NullRange)

SetRanges ==
    /\ steps < MaxSteps /\ listening
    /\ \E newRanges \in RangeLists(roots) :
          \E isLastBackward \in IF Len(newRanges) = 2 THEN BOOLEAN ELSE {FALSE} :
              CallSel("setRanges", setRanges(Sel, roots, newRanges, isLastBackward),
                  IF newRanges = <<>> THEN NullRange ELSE Last(newRanges))

Collapse ==
    /\ steps < MaxSteps /\ listening
    /\ \E range \in {r \in SelRanges(roots) : isCollapsed(r)} :
          CallSel("collapse", collapse(Sel, roots, range.start), range)

SetFocus ==
    /\ steps < MaxSteps /\ listening
    /\ \E range \in {r \in SelRanges(roots) : isCollapsed(r)} :
          CallSel("setFocus", setFocus(Sel, roots, range.start), range)

Destroy ==
    /\ steps < MaxSteps /\ listening
    /\ CallSel("destroy", destroy(Sel), NullRange)

\* selection.setAttribute( key, value ), or removeAttribute( key ) when the
\* value is "null": the attribute is first stored on, or removed from, the
\* element the selection is collapsed in when that element is empty.
ChangeAttribute(name, key, value) ==
    Let(IF storesAttributes(Sel, roots)
        THEN changeItem(roots, version, anchor(Sel, roots), getStoreAttributeKey(key), value)
        ELSE NoOp, LAMBDA op :
    Let(applyOperation(roots, version, op), LAMBDA result :
    Let(IF op # NoOp THEN fireChange(Sel, result.roots, ChangeOf(op), FALSE) ELSE Sel,
        LAMBDA stored :
    Let(IF value = "null" THEN removeAttributeInternal(stored, key, TRUE)
        ELSE setAttributeInternal(stored, key, value, TRUE), LAMBDA set :
    Let(IF set.changed THEN fire(set.sel, "change:attribute", <<key>>, TRUE) ELSE set.sel,
        LAMBDA sel :
        /\ roots' = IF op # NoOp THEN result.roots ELSE roots
        /\ version' = IF op # NoOp THEN result.version ELSE version
        /\ applied' = IF op # NoOp THEN applied + 1 ELSE applied
        /\ SetSel(sel)
        /\ last' = [Called(name, sel) EXCEPT !.key = key, !.value = value, !.op = op]
        /\ steps' = steps + 1)))))

SetAttribute ==
    /\ steps < MaxSteps /\ listening
    /\ \E key \in Keys, value \in {"true", "false"} : ChangeAttribute("setAttribute", key, value)

RemoveAttribute ==
    /\ steps < MaxSteps /\ listening
    /\ \E key \in Keys : ChangeAttribute("removeAttribute", key, "null")

\* The attributes given to setAttributesTo, none for clearAttributes().
AttributeMaps == UNION {[keys -> {"true", "false"}] : keys \in SUBSET Keys}

\* selection.setAttributesTo( attrs ).
SetAttributesTo ==
    /\ steps < MaxSteps /\ listening
    /\ \E attrs \in AttributeMaps :
          Let(setAttributesTo([roots |-> roots, version |-> version, applied |-> applied,
                               sel |-> Sel], attrs), LAMBDA doc :
              /\ roots' = doc.roots
              /\ version' = doc.version
              /\ applied' = doc.applied
              /\ SetSel(doc.sel)
              /\ last' = [Called("setAttributesTo", doc.sel) EXCEPT !.value = attrs]
              /\ steps' = steps + 1)

Next ==
    \/ ApplyOperation
    \/ ApplyStale
    \/ ApplyReversed
    \/ AddRange
    \/ RemoveAllRanges
    \/ SetRanges
    \/ Collapse
    \/ SetFocus
    \/ Destroy
    \/ SetAttribute
    \/ RemoveAttribute
    \/ SetAttributesTo

Spec == Init /\ [][Next]_vars

\* The document alone: any operation, and no call of the selection.
NextDoc ==
    \/ ApplyAnyOperation
    \/ ApplyStale
    \/ ApplyReversed

SpecDoc == Init /\ [][NextDoc]_vars

\* ------------------------------------------------- the factories of Range

\* createFromPositionAndShift that takes every shift for a positive one.
createFromPositionAndShiftForward(position, shift) ==
    Range(position, getShiftedBy(position, shift))

createFromPositionAndShift(position, shift) ==
    IF shift > 0
    THEN Range(position, getShiftedBy(position, shift))
    ELSE Range(getShiftedBy(position, shift), position)

\* An element is given by its root and path; Position.createFromParentAndOffset
\* gives the position at an offset in it.
createFromParentsAndOffsets(root, startElement, startOffset, endElement, endOffset) ==
    Range(Position(root, startElement \o <<startOffset>>),
          Position(root, endElement \o <<endOffset>>))

createIn(rts, root, element) ==
    createFromParentsAndOffsets(root, element, 0, element, maxOffset(NodeAt(rts[root], element)))

\* An item is given by its root and path, which is the path of
\* Position.createBefore( item ); the offset size of every item is 1.
createOn(root, item) ==
    createFromPositionAndShift(Position(root, item), 1)

\* ------------------------------------------------------- the calls of Range

\* range.isFlat: start.parent === end.parent. The same node is the node at
\* the same path of the same root.
isFlat(range) ==
    /\ range.start.root = range.end.root
    /\ getParentPath(range.start) = getParentPath(range.end)

\* position.getCommonPath( position ): the longest common start of the paths.
getCommonPath(pos, other) ==
    IF pos.root # other.root THEN <<>>
    ELSE Let(compareArrays(pos.path, other.path), LAMBDA cmp :
             CASE cmp.kind = "same" -> pos.path
               [] cmp.kind = "prefix" -> pos.path
               [] cmp.kind = "extension" -> other.path
               [] OTHER -> SubSeq(pos.path, 1, cmp.at - 1))

\* new Range( pos, pos.getShiftedBy( howMany ) ) pushed when howMany is not 0.
PushFlat(ranges, pos, howMany) ==
    IF howMany # 0 THEN Append(ranges, Range(pos, getShiftedBy(pos, howMany))) ELSE ranges

RECURSIVE GoUp(_, _, _, _)
\* The first loop of getMinimalFlatRanges: from the start up to the level
\* below the common ancestor, the rest of each parent is one flat range.
GoUp(rts, pos, diffAt, ranges) ==
    IF Len(pos.path) > diffAt + 1
    THEN GoUp(rts,
              Position(pos.root, Front(Front(pos.path)) \o <<pos.path[Len(pos.path) - 1] + 1>>),
              diffAt,
              PushFlat(ranges, pos, maxOffset(parent(rts, pos)) - offset(pos)))
    ELSE [pos |-> pos, ranges |-> ranges]

RECURSIVE GoDown(_, _, _)
\* The second loop: down to the end, what is before the end at each level.
GoDown(pos, end, ranges) ==
    IF Len(pos.path) <= Len(end.path)
    THEN GoDown(Position(pos.root, Front(pos.path) \o <<end.path[Len(pos.path)], 0>>),
                end,
                PushFlat(ranges, pos, end.path[Len(pos.path)] - offset(pos)))
    ELSE ranges

\* getMinimalFlatRanges without its first loop.
getFlatRangesBelowStart(rts, range) ==
    GoDown(range.start, range.end, <<>>)

getMinimalFlatRanges(rts, range) ==
    Let(GoUp(rts, range.start, Len(getCommonPath(range.start, range.end)), <<>>),
        LAMBDA up : GoDown(up.pos, range.end, up.ranges))

RECURSIVE TransformAll(_, _, _)
\* The loop over `ranges` in getTransformedByDelta: each range is replaced
\* by what the operation makes of it.
TransformAll(ranges, i, operation) ==
    IF i > Len(ranges) THEN <<>>
    ELSE getTransformedByDocumentChange(ranges[i], operation.type, operation.targetPosition,
                                        operation.howMany, operation.sourcePosition)
         \o TransformAll(ranges, i + 1, operation)

RECURSIVE DeltaLoopLosingRanges(_, _, _)
\* The loop over the operations with an operation of another type leaving
\* no range.
DeltaLoopLosingRanges(ranges, operations, k) ==
    IF k > Len(operations) THEN ranges
    ELSE DeltaLoopLosingRanges(IF operations[k].type \in {"insert", "move", "remove", "reinsert"}
                               THEN TransformAll(ranges, 1, operations[k]) ELSE <<>>,
                               operations, k + 1)

RECURSIVE DeltaLoop(_, _, _)
DeltaLoop(ranges, operations, k) ==
    IF k > Len(operations) THEN ranges
    ELSE DeltaLoop(IF operations[k].type \in {"insert", "move", "remove", "reinsert"}
                   THEN TransformAll(ranges, 1, operations[k]) ELSE ranges,
                   operations, k + 1)

\* A delta is the sequence of its operations.
getTransformedByDelta(range, delta) == DeltaLoop(<<range>>, delta, 1)

RECURSIVE DeltasLoop(_, _, _, _)
\* The first loop of getTransformedByDeltas, range i of the list by delta d.
DeltasLoop(ranges, i, deltas, d) ==
    IF d > Len(deltas) THEN ranges
    ELSE IF i > Len(ranges) THEN DeltasLoop(ranges, 1, deltas, d + 1)
    ELSE Let(getTransformedByDelta(ranges[i], deltas[d]), LAMBDA result :
             DeltasLoop(SubSeq(ranges, 1, i - 1) \o result \o SubSeq(ranges, i + 1, Len(ranges)),
                        i + Len(result), deltas, d))

RECURSIVE RemoveInside(_, _, _)
\* The second loop of getTransformedByDeltas: ranges[ j ] is spliced out when
\* it is inside, around or equal to ranges[ i ], and j moves on by one.
RemoveInside(ranges, i, j) ==
    IF i > Len(ranges) THEN ranges
    ELSE IF j > Len(ranges) THEN RemoveInside(ranges, i + 1, i + 2)
    ELSE IF \/ containsRange(ranges[i], ranges[j])
            \/ containsRange(ranges[j], ranges[i])
            \/ isEqual(ranges[i], ranges[j])
    THEN RemoveInside(SpliceOut(ranges, j - 1), i, j + 1)
    ELSE RemoveInside(ranges, i, j + 1)

getTransformedByDeltas(range, deltas) ==
    RemoveInside(DeltasLoop(<<range>>, 1, deltas, 1), 1, 2)

\* ------------------------------------------ the specification of the calls

\* The documents the ranges are in: `<p>abcd</p><p>efgh</p>`, `<p>abcde</p>`,
\* `<p>ab</p><div><p>c</p><p></p></div>`, and `<p>ab</p>` with a removed
\* `<p>c</p>` in a holder element of the graveyard.
RangeTrees ==
    {[main |-> Element("$root", <<p(<<"a", "b", "c", "d">>), p(<<"e", "f", "g", "h">>)>>),
      graveyard |-> Element("$root", <<>>)],
     [main |-> Element("$root", <<p(<<"a", "b", "c", "d", "e">>)>>),
      graveyard |-> Element("$root", <<>>)],
     [main |-> Element("$root", <<p(<<"a", "b">>),
                                  Element("div", <<p(<<"c">>), p(<<>>)>>)>>),
      graveyard |-> Element("$root", <<>>)],
     [main |-> Element("$root", <<p(<<"a", "b">>)>>),
      graveyard |-> Element("$root",
                            <<Element("$graveyardHolder", <<p(<<"c">>)>>)>>)]}

NoRangeCall ==
    [call |-> "none", range |-> NullRange, otherRange |-> NullRange,
     position |-> NullPosition, sourcePosition |-> NullPosition, howMany |-> 0,
     spread |-> FALSE, isSticky |-> FALSE, deltas |-> <<>>, ranges |-> <<>>,
     sorts |-> FALSE, shift |-> 0, start |-> NullPosition, end |-> NullPosition,
     otherPosition |-> NullPosition, err |-> "", result |-> <<>>]

InitRange ==
    /\ roots \in RangeTrees
    /\ version = 0
    /\ liveRanges = <<>>
    /\ _ranges = <<>>
    /\ _lastRangeBackward = FALSE
    /\ _attrs = EmptyMap
    /\ _attributePriority = EmptyMap
    /\ listening = TRUE
    /\ steps = 0
    /\ applied = 0
    /\ last = NoRangeCall

\* A call of a method of Range changes neither the document nor the selection.
RangeCalled(call) ==
    /\ last' = call
    /\ UNCHANGED <<roots, version, liveRanges, _ranges, _lastRangeBackward, _attrs,
                   _attributePriority, listening, steps, applied>>

\* A behaviour is one call.
NoCallYet == last.call = "none"

\* The ranges of the main root: a start and an end that is not before it.
Ranges(rts) ==
    Let(MainPositions(rts), LAMBDA positions :
        {range \in {Range(pair[1], pair[2]) : pair \in positions \X positions} :
            ~isAfter(range.start, range.end)})

\* The most nodes one insertion adds.
MaxInserted == 3

\* The moves of document nodes: a run of nodes of the main root, moved to a
\* position of the main root or removed, to a holder in the graveyard.
Moves(rts) ==
    Let(MainPositions(rts), LAMBDA positions :
        {op \in UNION {{MoveOperation(run[1], run[2], pos, 0) : pos \in positions}
                       \cup {RemoveOperation(rts, run[1], run[2], 0)} :
                       run \in Runs(rts, positions)} :
            execute(rts, op).err = ""})

GetDifference ==
    /\ NoCallYet
    /\ \E range \in Ranges(roots), otherRange \in Ranges(roots) :
           RangeCalled([NoRangeCall EXCEPT !.call = "getDifference", !.range = range,
                                           !.otherRange = otherRange,
                                           !.result = getDifference(range, otherRange)])

GetIntersection ==
    /\ NoCallYet
    /\ \E range \in Ranges(roots), otherRange \in Ranges(roots) :
           RangeCalled([NoRangeCall EXCEPT !.call = "getIntersection", !.range = range,
                                           !.otherRange = otherRange,
                                           !.result = getIntersection(range, otherRange)])

IsIntersecting ==
    /\ NoCallYet
    /\ \E range \in Ranges(roots), otherRange \in Ranges(roots) :
           RangeCalled([NoRangeCall EXCEPT !.call = "isIntersecting", !.range = range,
                                           !.otherRange = otherRange,
                                           !.result = isIntersecting(range, otherRange)])

GetMinimalFlatRanges ==
    /\ NoCallYet
    /\ \E range \in Ranges(roots) :
           RangeCalled([NoRangeCall EXCEPT !.call = "getMinimalFlatRanges", !.range = range,
                                           !.result = getMinimalFlatRanges(roots, range)])

GetTransformedByInsertion ==
    /\ NoCallYet
    /\ \E range \in Ranges(roots), insertPosition \in MainPositions(roots),
          howMany \in 1..MaxInserted, spread \in BOOLEAN, isSticky \in BOOLEAN :
           RangeCalled([NoRangeCall EXCEPT
                           !.call = "_getTransformedByInsertion", !.range = range,
                           !.position = insertPosition, !.howMany = howMany,
                           !.spread = spread, !.isSticky = isSticky,
                           !.result = getTransformedByInsertion(range, insertPosition, howMany,
                                                                spread, isSticky)])

GetTransformedByMove ==
    /\ NoCallYet
    /\ \E range \in Ranges(roots), op \in Moves(roots) :
           RangeCalled([NoRangeCall EXCEPT
                           !.call = "_getTransformedByMove", !.range = range,
                           !.sourcePosition = op.sourcePosition,
                           !.position = op.targetPosition, !.howMany = op.howMany,
                           !.result = getTransformedByMove(range, op.sourcePosition,
                                                           op.targetPosition, op.howMany)])

\* The most ranges passed to createFromRanges.
MaxRanges == 3

\* The ranges passed to createFromRanges: flat ranges that hold a node.
FlatRanges(rts) ==
    {range \in Ranges(rts) : isFlat(range) /\ ~isCollapsed(range)}

\* The ranges that hold no node: the collapsed ones and the ones whose end
\* touches their start.
EmptyRanges(rts) ==
    {range \in Ranges(rts) : isTouching(rts, range.start, range.end)}

RECURSIVE DisjointLists(_, _)
\* The lists of at most n ranges of `candidates` no two of which intersect.
DisjointLists(candidates, n) ==
    IF n = 0 THEN {<<>>}
    ELSE Let(DisjointLists(candidates, n - 1), LAMBDA shorter :
             shorter
             \cup {Append(pair[1], pair[2]) :
                       pair \in {q \in shorter \X candidates :
                                    /\ Len(q[1]) = n - 1
                                    /\ \A i \in 1..Len(q[1]) :
                                           ~isIntersecting(q[1][i], q[2])}})

CreateFromRanges ==
    /\ NoCallYet
    /\ \E ranges \in DisjointLists(FlatRanges(roots) \cup EmptyRanges(roots), MaxRanges),
          sorts \in BOOLEAN :
           Let(createFromRanges(roots, ranges, sorts), LAMBDA created :
               RangeCalled([NoRangeCall EXCEPT !.call = "createFromRanges",
                                               !.ranges = ranges, !.sorts = sorts,
                                               !.err = created.err,
                                               !.result = created.range]))

\* The largest shift, forward or backward, of createFromPositionAndShift.
MaxShift == 2

\* new Range( start, end ), and new Range( start ) when `end` is null.
NewRange ==
    /\ NoCallYet
    /\ \E start \in MainPositions(roots), end \in MainPositions(roots) \cup {NullPosition} :
           RangeCalled([NoRangeCall EXCEPT
                           !.call = "new Range", !.start = start, !.end = end,
                           !.result = IF end # NullPosition THEN Range(start, end)
                                      ELSE Range(start, start)])

CreateFromPositionAndShift ==
    /\ NoCallYet
    /\ \E position \in MainPositions(roots), shift \in (0 - MaxShift)..MaxShift :
           /\ offset(position) + shift <= maxOffset(parent(roots, position))
           /\ RangeCalled([NoRangeCall EXCEPT
                              !.call = "createFromPositionAndShift", !.position = position,
                              !.shift = shift,
                              !.result = createFromPositionAndShift(position, shift)])

CreateFromParentsAndOffsets ==
    /\ NoCallYet
    /\ \E start \in MainPositions(roots), end \in MainPositions(roots) :
           RangeCalled([NoRangeCall EXCEPT
                           !.call = "createFromParentsAndOffsets", !.start = start, !.end = end,
                           !.result = createFromParentsAndOffsets(
                                          "main", getParentPath(start), offset(start),
                                          getParentPath(end), offset(end))])

\* The paths of the elements of the main root, the root itself among them.
ElementPaths(rts) ==
    {getParentPath(pos) : pos \in MainPositions(rts)}

CreateIn ==
    /\ NoCallYet
    /\ \E element \in ElementPaths(roots) :
           RangeCalled([NoRangeCall EXCEPT
                           !.call = "createIn", !.position = Position("main", element \o <<0>>),
                           !.result = createIn(roots, "main", element)])

CreateOn ==
    /\ NoCallYet
    /\ \E position \in MainPositions(roots) :
           /\ offset(position) < maxOffset(parent(roots, position))
           /\ RangeCalled([NoRangeCall EXCEPT
                              !.call = "createOn", !.position = position,
                              !.result = createOn("main", position.path)])

\* The positions in the roots of the document, the graveyard included.
DocumentPositions(rts) ==
    MainPositions(rts)
    \cup Let(PositionsFrom(rts.graveyard, <<>>, 0), LAMBDA all :
             {Position("graveyard", all[i]) : i \in 1..Len(all)})

\* position.isBefore( otherPosition ), position.isAfter( otherPosition ) and
\* position.isEqual( otherPosition ), in this order.
ComparePositions ==
    /\ NoCallYet
    /\ \E position \in DocumentPositions(roots), otherPosition \in DocumentPositions(roots) :
           RangeCalled([NoRangeCall EXCEPT
                           !.call = "compare", !.position = position,
                           !.otherPosition = otherPosition,
                           !.result = <<isBefore(position, otherPosition),
                                        isAfter(position, otherPosition),
                                        PositionIsEqual(position, otherPosition)>>])

NextRange ==
    \/ ComparePositions
    \/ NewRange
    \/ CreateFromPositionAndShift
    \/ CreateFromParentsAndOffsets
    \/ CreateIn
    \/ CreateOn
    \/ CreateFromRanges
    \/ GetDifference
    \/ GetIntersection
    \/ IsIntersecting
    \/ GetMinimalFlatRanges
    \/ GetTransformedByInsertion
    \/ GetTransformedByMove

SpecRange == InitRange /\ [][NextRange]_vars

\* The most deltas a range is transformed by.
MaxDeltas == 2

\* The ranges within the first paragraph, carets included.
ParagraphRanges(rts) ==
    {range \in Ranges(rts) :
        /\ getParentPath(range.start) = <<0>> /\ getParentPath(range.end) = <<0>>}

\* The operations on the text of the first paragraph of the document rts:
\* a character inserted, characters removed or moved within the paragraph.
ParagraphOps(rts) ==
    {op \in DocOps(rts, 0) :
        /\ op.type \in {"insert", "move", "remove"}
        /\ op.type # "insert" => getParentPath(op.sourcePosition) = <<0>>
        /\ op.type # "remove" => getParentPath(op.targetPosition) = <<0>>
        /\ execute(rts, op).err = ""}

RECURSIVE DeltaLists(_, _)
\* The lists of at most n deltas of one operation each that apply, one
\* after the other, to the document rts.
DeltaLists(rts, n) ==
    IF n = 0 THEN {<<>>}
    ELSE {<<>>}
         \cup UNION {{<<<<op>>>> \o rest : rest \in DeltaLists(execute(rts, op).roots, n - 1)} :
                     op \in ParagraphOps(rts)}

GetTransformedByDelta ==
    /\ NoCallYet
    /\ \E range \in ParagraphRanges(roots), deltas \in DeltaLists(roots, 1) \ {<<>>} :
           RangeCalled([NoRangeCall EXCEPT !.call = "getTransformedByDelta", !.range = range,
                                           !.deltas = deltas,
                                           !.result = getTransformedByDelta(range, deltas[1])])

GetTransformedByDeltas ==
    /\ NoCallYet
    /\ \E range \in ParagraphRanges(roots), deltas \in DeltaLists(roots, MaxDeltas) :
           RangeCalled([NoRangeCall EXCEPT !.call = "getTransformedByDeltas", !.range = range,
                                           !.deltas = deltas,
                                           !.result = getTransformedByDeltas(range, deltas)])

\* The most operations of a delta that changes no structure.
MaxOperations == 2

\* The operations on the document rts that are no insertion and no move:
\* a change of an attribute of nodes of the main root or of the root itself,
\* the renaming of an element, and the operation that does nothing.
OtherOps(rts) ==
    {op \in DocOps(rts, 0) : op.type = "attribute" /\ execute(rts, op).err = ""}
    \cup {RootAttributeOperation("main", NullAttr, Attribute("bold", "true"), 0)}
    \cup {RenameOperation(pos, "p", "h", 0) :
             pos \in {q \in MainPositions(rts) :
                         /\ offset(q) < maxOffset(parent(rts, q))
                         /\ NodeAt(rts.main, q.path).name = "p"}}
    \cup {NoOp}

RECURSIVE OtherDeltas(_, _)
\* The deltas of 1 to n of these operations.
OtherDeltas(rts, n) ==
    IF n = 0 THEN {<<>>}
    ELSE {<<op>> : op \in OtherOps(rts)}
         \cup {<<op>> \o rest : op \in OtherOps(rts), rest \in OtherDeltas(rts, n - 1) \ {<<>>}}

\* range.getTransformedByDelta( delta ) for a delta that changes attributes
\* or names only.
GetTransformedByOtherDelta ==
    /\ NoCallYet
    /\ \E range \in ParagraphRanges(roots), delta \in OtherDeltas(roots, MaxOperations) \ {<<>>} :
           RangeCalled([NoRangeCall EXCEPT !.call = "getTransformedByDelta", !.range = range,
                                           !.deltas = <<delta>>,
                                           !.result = getTransformedByDelta(range, delta)])

NextDeltas ==
    \/ GetTransformedByDelta
    \/ GetTransformedByOtherDelta
    \/ GetTransformedByDeltas

SpecDeltas == InitRange /\ [][NextDeltas]_vars

\* ------------------------------------------- deltas and their transformation

\* A delta: its type and the operations it groups.
Delta(type, operations) == [type |-> type, operations |-> operations]

NoDelta == Delta("none", <<>>)

\* A RemoveDelta: one RemoveOperation of howMany nodes from sourcePosition.
getRemoveDelta(rts, sourcePosition, howMany, baseVersion) ==
    Delta("remove", <<RemoveOperation(rts, sourcePosition, howMany, baseVersion)>>)

\* A SplitDelta at a position inside an element: an empty copy of the element
\* is inserted after it and the nodes from the position on move into the copy.
getSplitDelta(rts, splitPosition, baseVersion) ==
    LET splitElement == parent(rts, splitPosition)
        insertPosition == getShiftedBy(Position(splitPosition.root,
                                                getParentPath(splitPosition)), 1)
    IN  Delta("split",
              <<InsertOperation(insertPosition, <<Element(splitElement.name, <<>>)>>,
                                baseVersion),
                MoveOperation(splitPosition, maxOffset(splitElement) - offset(splitPosition),
                              Position(splitPosition.root, insertPosition.path \o <<0>>),
                              baseVersion + 1)>>)

\* A MergeDelta at a position between two elements: the children of the
\* element after the position move to the end of the element before it and
\* the emptied element is removed.
getMergeDelta(rts, mergePosition, baseVersion) ==
    LET before == getShiftedBy(mergePosition, -1)
        howManyInPrev == maxOffset(NodeAt(rts[mergePosition.root], before.path))
        howManyInNext == maxOffset(NodeAt(rts[mergePosition.root], mergePosition.path))
    IN  Delta("merge",
              <<MoveOperation(Position(mergePosition.root, mergePosition.path \o <<0>>),
                              howManyInNext,
                              Position(mergePosition.root, before.path \o <<howManyInPrev>>),
                              baseVersion),
                RemoveOperation(rts, mergePosition, 1, baseVersion + 1)>>)

\* delta.getReversed(): the reversed operations in reverse order, with
\* consecutive base versions after the last operation of the delta.
Delta_getReversed(rts, delta) ==
    LET n == Len(delta.operations)
        reverseType == CASE delta.type = "merge" -> "split"
                         [] delta.type = "split" -> "merge"
                         [] delta.type = "remove" -> "reinsert"
                         [] OTHER -> delta.type
    IN  Delta(reverseType,
              [k \in 1..n |->
                  [getReversed(rts, delta.operations[n + 1 - k])
                      EXCEPT !.baseVersion = delta.operations[n].baseVersion + k]])

\* The deltas with the base versions of their operations counted on from
\* baseVersion, delta after delta.
RECURSIVE updateBaseVersion(_, _)
updateBaseVersion(baseVersion, deltas) ==
    IF deltas = <<>> THEN <<>>
    ELSE <<[deltas[1] EXCEPT !.operations =
               [k \in 1..Len(deltas[1].operations) |->
                   [deltas[1].operations[k] EXCEPT !.baseVersion = baseVersion + k - 1]]]>>
         \o updateBaseVersion(baseVersion + Len(deltas[1].operations), Tail(deltas))

\* What an operation of `b` makes of the span of nodes a move or a removal
\* takes: an insertion shifts or widens it; a move takes its nodes out of it
\* and shifts the boundaries of what is left, joined to one range.
SpanTransformedBy(span, operation) ==
    IF operation.type = "insert"
    THEN getTransformedByInsertion(span, operation.targetPosition, operation.howMany,
                                   FALSE, FALSE)[1]
    ELSE IF operation.type \in {"move", "remove", "reinsert"}
    THEN Let(getDifference(span, createFromPositionAndShift(operation.sourcePosition,
                                                            operation.howMany)),
             LAMBDA difference :
             IF difference = <<>> THEN NullRange
             ELSE Range(PositionTransformedByMove(
                            difference[1].start, operation.sourcePosition,
                            operation.targetPosition, operation.howMany, TRUE, FALSE),
                        PositionTransformedByMove(
                            difference[Len(difference)].end, operation.sourcePosition,
                            operation.targetPosition, operation.howMany, FALSE, FALSE)))
    ELSE span

RECURSIVE SpanTransformedByAll(_, _)
SpanTransformedByAll(span, operations) ==
    IF operations = <<>> \/ span = NullRange THEN span
    ELSE SpanTransformedByAll(SpanTransformedBy(span, operations[1]), Tail(operations))

\* The transformation without a special case: the operation of `a` is
\* transformed by each operation of `b` in turn and takes what has become
\* of its span, or does nothing when none of it is left.
defaultTransform(rts, a, b) ==
    LET operation == a.operations[1]
        span == SpanTransformedByAll(
                    createFromPositionAndShift(operation.sourcePosition, operation.howMany),
                    b.operations)
    IN  updateBaseVersion(
            operation.baseVersion + Len(b.operations),
            <<Delta(a.type,
                    <<IF span = NullRange THEN NoOp
                      ELSE [operation EXCEPT
                               !.sourcePosition = span.start,
                               !.howMany = offset(span.end) - offset(span.start)]>>)>>)

\* RemoveDelta x SplitDelta: the copy of the split element that is inserted
\* right after the removed span is removed with the span.
transformRemoveBySplit(rts, a, b) ==
    LET operation == a.operations[1]
        insertPosition == b.operations[1].targetPosition
        rangeEnd == getShiftedBy(operation.sourcePosition, operation.howMany)
    IN  IF PositionIsEqual(rangeEnd, insertPosition)
        THEN updateBaseVersion(operation.baseVersion + Len(b.operations),
                               <<Delta(a.type, <<[operation EXCEPT !.howMany = @ + 1]>>)>>)
        ELSE defaultTransform(rts, a, b)

\* MoveDelta x MergeDelta with the merge kept.
transformMoveByMergeKept(rts, a, b) == defaultTransform(rts, a, b)

\* MoveDelta x MergeDelta, which RemoveDelta x MergeDelta falls under: a
\* merge at a position between the moved nodes is cancelled by its reverse.
transformMoveByMerge(rts, a, b) ==
    LET operation == a.operations[1]
        mergePosition == b.operations[2].sourcePosition
        operateInSameParent ==
            /\ operation.sourcePosition.root = mergePosition.root
            /\ getParentPath(operation.sourcePosition) = getParentPath(mergePosition)
        mergeInsideMoveRange ==
            /\ offset(operation.sourcePosition) <= offset(mergePosition)
            /\ offset(operation.sourcePosition) + operation.howMany > offset(mergePosition)
    IN  IF operateInSameParent /\ mergeInsideMoveRange
        THEN updateBaseVersion(operation.baseVersion + Len(b.operations),
                               <<Delta_getReversed(rts, b), a>>)
        ELSE defaultTransform(rts, a, b)

\* transform( a, b ): the deltas that do what `a` does once `b` is applied.
deltaTransform(rts, a, b) ==
    CASE a.type = "remove" /\ b.type = "split" -> transformRemoveBySplit(rts, a, b)
      [] a.type = "remove" /\ b.type = "merge" -> transformMoveByMerge(rts, a, b)
      [] OTHER -> defaultTransform(rts, a, b)

RECURSIVE ApplyOperations(_, _)
\* The operations applied in their order to the document `doc`, a record of
\* err, roots and version; the first that fails ends it.
ApplyOperations(doc, operations) ==
    IF operations = <<>> \/ doc.err # "" THEN doc
    ELSE ApplyOperations(applyOperation(doc.roots, doc.version, operations[1]),
                         Tail(operations))

RECURSIVE applyDeltas(_, _)
applyDeltas(doc, deltas) ==
    IF deltas = <<>> THEN doc
    ELSE applyDeltas(ApplyOperations(doc, deltas[1].operations), Tail(deltas))

\* ------------------------------------- the specification of the transform

\* The documents of the deltas: `<p>ab</p><p>c</p><p>de</p>` and
\* `<div><p>ab</p><p>c</p></div><p>d</p>`.
TransformTrees ==
    {[main |-> Element("$root", <<p(<<"a", "b">>), p(<<"c">>), p(<<"d", "e">>)>>),
      graveyard |-> Element("$root", <<>>)],
     [main |-> Element("$root", <<Element("div", <<p(<<"a", "b">>), p(<<"c">>)>>),
                                  p(<<"d">>)>>),
      graveyard |-> Element("$root", <<>>)]}

\* The versions the document of the deltas is at.
BaseVersions == {0, 1}

NoTransformCall ==
    [call |-> "none", a |-> NoDelta, b |-> NoDelta, result |-> <<>>,
     before |-> [main |-> Element("$root", <<>>), graveyard |-> Element("$root", <<>>)],
     baseVersion |-> 0, err |-> ""]

InitTransform ==
    /\ roots \in TransformTrees
    /\ version \in BaseVersions
    /\ liveRanges = <<>>
    /\ _ranges = <<>>
    /\ _lastRangeBackward = FALSE
    /\ _attrs = EmptyMap
    /\ _attributePriority = EmptyMap
    /\ listening = TRUE
    /\ steps = 0
    /\ applied = 0
    /\ last = NoTransformCall

\* The removals of a run of nodes of the main root of the document.
RemoveDeltas(rts, baseVersion) ==
    {getRemoveDelta(rts, run[1], run[2], baseVersion) :
        run \in Runs(rts, MainPositions(rts))}

\* The splits of an element of the main root that has a node to move.
SplitDeltas(rts, baseVersion) ==
    {getSplitDelta(rts, pos, baseVersion) :
        pos \in {q \in MainPositions(rts) :
                    Len(q.path) > 1 /\ offset(q) < maxOffset(parent(rts, q))}}

\* The merges of two neighbouring elements of the main root, the second of
\* which has a node to move.
MergeDeltas(rts, baseVersion) ==
    {getMergeDelta(rts, pos, baseVersion) :
        pos \in {q \in MainPositions(rts) :
                    /\ offset(q) > 0 /\ offset(q) < maxOffset(parent(rts, q))
                    /\ ~IsText(NodeAt(rts.main, q.path))
                    /\ ~IsText(NodeAt(rts.main, getShiftedBy(q, -1).path))
                    /\ maxOffset(NodeAt(rts.main, q.path)) > 0}}

\* Whether the delta `b` works on children of the parent the removal is in.
InParentOfRemoval(a, b) ==
    LET elementPosition == IF b.type = "split"
                           THEN getShiftedBy(b.operations[1].targetPosition, -1)
                           ELSE b.operations[2].sourcePosition
    IN  getParentPath(a.operations[1].sourcePosition) = getParentPath(elementPosition)

\* transform( a, b ) of two deltas made at the version of the document.
Transformed(a, b) ==
    /\ last' = [NoTransformCall EXCEPT !.call = "transform", !.a = a, !.b = b,
                                       !.before = roots, !.baseVersion = version,
                                       !.result = deltaTransform(roots, a, b)]
    /\ UNCHANGED <<roots, version, liveRanges, _ranges, _lastRangeBackward, _attrs,
                   _attributePriority, listening, steps, applied>>

TransformRemoveBySplit ==
    /\ NoCallYet
    /\ \E a \in RemoveDeltas(roots, version), b \in SplitDeltas(roots, version) :
           InParentOfRemoval(a, b) /\ Transformed(a, b)

TransformRemoveByMerge ==
    /\ NoCallYet
    /\ \E a \in RemoveDeltas(roots, version), b \in MergeDeltas(roots, version) :
           InParentOfRemoval(a, b) /\ Transformed(a, b)

\* applyDelta( b ) and then applyDelta of each transformed delta.
ApplyTransformed ==
    /\ last.call = "transform"
    /\ Let(applyDeltas([err |-> "", roots |-> roots, version |-> version],
                       <<last.b>> \o last.result), LAMBDA doc :
           /\ roots' = doc.roots
           /\ version' = doc.version
           /\ last' = [last EXCEPT !.call = "applied", !.err = doc.err])
    /\ UNCHANGED <<liveRanges, _ranges, _lastRangeBackward, _attrs,
                   _attributePriority, listening, steps, applied>>

NextTransform ==
    \/ TransformRemoveBySplit
    \/ TransformRemoveByMerge
    \/ ApplyTransformed

SpecTransform == InitTransform /\ [][NextTransform]_vars

\* ----------------------------------------------- the objects of the calls

\* Positions, ranges and arrays as the objects they are: the heap is the
\* list of the objects created so far and a reference is an index into it.
\* A Position holds a reference to the array that is its path, a Range
\* holds references to its two positions.
ArrayObject(items) ==
    [kind |-> "Array", items |-> items, root |-> "", path |-> 0, start |-> 0, end |-> 0]

PositionObject(root, path) ==
    [kind |-> "Position", items |-> <<>>, root |-> root, path |-> path, start |-> 0, end |-> 0]

RangeObject(start, end) ==
    [kind |-> "Range", items |-> <<>>, root |-> "", path |-> 0, start |-> start, end |-> end]

\* The path, the position and the range an object stands for.
PathAt(heap, position) == heap[heap[position].path].items

PositionAt(heap, position) == Position(heap[position].root, PathAt(heap, position))

RangeAt(heap, range) ==
    Range(PositionAt(heap, heap[range].start), PositionAt(heap, heap[range].end))

\* A createFromPosition whose position shares the array of the path.
Position_createFromPositionSharingPath(heap, position) ==
    [heap |-> Append(heap, PositionObject(heap[position].root, heap[position].path)),
     ref |-> Len(heap) + 1]

\* Position.createFromPosition( position ): a new position with a copy of
\* the path; the result is [heap, ref].
Position_createFromPosition(heap, position) ==
    [heap |-> heap \o <<ArrayObject(PathAt(heap, position)),
                        PositionObject(heap[position].root, Len(heap) + 1)>>,
     ref |-> Len(heap) + 2]

\* position.offset = value: the last item of the path is set in place.
SetOffset(heap, position, value) ==
    [heap EXCEPT ![heap[position].path].items = [@ EXCEPT ![Len(@)] = value]]

\* position.getShiftedBy( shift ): a copy whose offset is set.
Position_getShiftedBy(heap, position, shift) ==
    Let(Position_createFromPosition(heap, position), LAMBDA shifted :
    Let(Last(PathAt(shifted.heap, shifted.ref)) + shift, LAMBDA to :
        [heap |-> SetOffset(shifted.heap, shifted.ref, IF to < 0 THEN 0 ELSE to),
         ref |-> shifted.ref]))

\* new Range( start, end ): the constructor makes its own positions.
Range_new(heap, start, end) ==
    Let(Position_createFromPosition(heap, start), LAMBDA s :
    Let(Position_createFromPosition(s.heap, end), LAMBDA e :
        [heap |-> Append(e.heap, RangeObject(s.ref, e.ref)), ref |-> Len(e.heap) + 1]))

\* A range a caller has made from two positions of its own.
NewRangeObject(heap, range) ==
    [heap |-> heap \o <<ArrayObject(range.start.path),
                        PositionObject(range.start.root, Len(heap) + 1),
                        ArrayObject(range.end.path),
                        PositionObject(range.end.root, Len(heap) + 3),
                        RangeObject(Len(heap) + 2, Len(heap) + 4)>>,
     ref |-> Len(heap) + 5]

\* ranges.push( new Range( pos, pos.getShiftedBy( howMany ) ) ) when howMany
\* is not 0; `pushed` keeps each range as it is when it is pushed.
PushFlatRange(st, howMany) ==
    IF howMany = 0 THEN st
    ELSE Let(Position_getShiftedBy(st.heap, st.pos, howMany), LAMBDA shifted :
         Let(Range_new(shifted.heap, st.pos, shifted.ref), LAMBDA range :
             [st EXCEPT !.heap = range.heap,
                        !.ranges = Append(@, range.ref),
                        !.pushed = Append(@, RangeAt(range.heap, range.ref))]))

RECURSIVE GoUpInPlace(_, _, _)
\* The first loop of getMinimalFlatRanges on the working position st.pos:
\* pos.path = pos.path.slice( 0, -1 ) gives the position a new array and
\* pos.offset++ changes that array in place.
GoUpInPlace(rts, st, diffAt) ==
    IF Len(PathAt(st.heap, st.pos)) > diffAt + 1
    THEN Let(PushFlatRange(st, maxOffset(parent(rts, PositionAt(st.heap, st.pos)))
                               - Last(PathAt(st.heap, st.pos))), LAMBDA pushed :
         Let(Append(pushed.heap, ArrayObject(Front(PathAt(pushed.heap, st.pos)))),
             LAMBDA sliced :
         Let([sliced EXCEPT ![st.pos].path = Len(sliced)], LAMBDA moved :
             GoUpInPlace(rts,
                         [pushed EXCEPT !.heap = SetOffset(moved, st.pos,
                                                           Last(PathAt(moved, st.pos)) + 1)],
                         diffAt))))
    ELSE st

RECURSIVE GoDownInPlace(_, _)
\* The second loop: pos.offset = offset and pos.path.push( 0 ) change the
\* array of the working position in place; this.end.path is read in each
\* turn.
GoDownInPlace(st, this) ==
    Let(PathAt(st.heap, st.pos), LAMBDA path :
    Let(PathAt(st.heap, st.heap[this].end), LAMBDA endPath :
        IF Len(path) <= Len(endPath)
        THEN Let(endPath[Len(path)], LAMBDA to :
             Let(PushFlatRange(st, to - Last(path)), LAMBDA pushed :
             Let(SetOffset(pushed.heap, st.pos, to), LAMBDA set :
                 GoDownInPlace([pushed EXCEPT !.heap =
                                   [set EXCEPT ![set[st.pos].path].items = Append(@, 0)]],
                               this))))
        ELSE st))

\* range.getMinimalFlatRanges() on the Range object `this`: [heap, pos,
\* ranges, pushed], ranges the references of the returned array.
Range_getMinimalFlatRanges(heap, rts, this) ==
    Let(Position_createFromPosition(heap, heap[this].start), LAMBDA pos :
    Let(Len(getCommonPath(PositionAt(heap, heap[this].start),
                          PositionAt(heap, heap[this].end))), LAMBDA diffAt :
        GoDownInPlace(GoUpInPlace(rts, [heap |-> pos.heap, pos |-> pos.ref,
                                        ranges |-> <<>>, pushed |-> <<>>], diffAt),
                      this)))

RECURSIVE GlueBeforeInPlace(_, _, _, _, _)
\* The loop of createFromRanges over the ranges before the reference range,
\* i the 0-based index: result.start becomes a new position.
GlueBeforeInPlace(heap, rts, items, i, result) ==
    IF i < 0 THEN [err |-> "", heap |-> heap]
    ELSE IF i >= Len(items) THEN [err |-> "TypeError", heap |-> heap]
    ELSE IF isTouching(rts, PositionAt(heap, heap[items[i + 1]].end),
                       PositionAt(heap, heap[result].start))
    THEN Let(Position_createFromPosition(heap, heap[items[i + 1]].start), LAMBDA start :
             GlueBeforeInPlace([start.heap EXCEPT ![result].start = start.ref],
                               rts, items, i + 1, result))
    ELSE [err |-> "", heap |-> heap]

RECURSIVE GlueAfterInPlace(_, _, _, _, _)
\* The loop over the ranges after the reference range.
GlueAfterInPlace(heap, rts, items, i, result) ==
    IF i >= Len(items) THEN heap
    ELSE IF isTouching(rts, PositionAt(heap, heap[items[i + 1]].start),
                       PositionAt(heap, heap[result].end))
    THEN Let(Position_createFromPosition(heap, heap[items[i + 1]].end), LAMBDA end :
             GlueAfterInPlace([end.heap EXCEPT ![result].end = end.ref],
                              rts, items, i + 1, result))
    ELSE heap

\* A createFromRanges that sorts a copy of the array it is given.
Range_createFromCopyOfRanges(heap, rts, array, sorts) ==
    Let(heap[array].items, LAMBDA items :
    Let(OrderAfterSort([i \in 1..Len(items) |-> RangeAt(heap, items[i])], sorts),
        LAMBDA order :
    Let([i \in 1..Len(items) |-> items[order[i]]], LAMBDA now :
        IF Len(items) = 0
        THEN [err |-> "range-create-from-ranges-empty-array", heap |-> heap, ref |-> 0]
        ELSE Let(Range_new(heap, heap[items[1]].start, heap[items[1]].end), LAMBDA result :
             Let((CHOOSE i \in 1..Len(now) : now[i] = items[1]) - 1, LAMBDA refIndex :
             Let(GlueBeforeInPlace(result.heap, rts, now, refIndex - 1, result.ref),
                 LAMBDA glued :
                 IF glued.err # ""
                 THEN [err |-> glued.err, heap |-> glued.heap, ref |-> 0]
                 ELSE [err |-> "",
                       heap |-> GlueAfterInPlace(glued.heap, rts, now, refIndex + 1,
                                                 result.ref),
                       ref |-> result.ref]))))))

\* Range.createFromRanges( ranges ) on the Array object `array` of Range
\* objects: [err, heap, ref], ref the returned Range. ranges.sort() orders
\* the passed array itself.
Range_createFromRanges(heap, rts, array, sorts) ==
    Let(heap[array].items, LAMBDA items :
        IF Len(items) = 0
        THEN [err |-> "range-create-from-ranges-empty-array", heap |-> heap, ref |-> 0]
        ELSE IF Len(items) = 1
        THEN Let(Range_new(heap, heap[items[1]].start, heap[items[1]].end), LAMBDA created :
                 [err |-> "", heap |-> created.heap, ref |-> created.ref])
        ELSE Let(OrderAfterSort([i \in 1..Len(items) |-> RangeAt(heap, items[i])], sorts),
                 LAMBDA order :
             Let([heap EXCEPT ![array].items = [i \in 1..Len(items) |-> items[order[i]]]],
                 LAMBDA sorted :
             Let(sorted[array].items, LAMBDA now :
             Let((CHOOSE i \in 1..Len(now) : now[i] = items[1]) - 1, LAMBDA refIndex :
             Let(Range_new(sorted, sorted[items[1]].start, sorted[items[1]].end),
                 LAMBDA result :
             Let(GlueBeforeInPlace(result.heap, rts, now, refIndex - 1, result.ref),
                 LAMBDA glued :
                 IF glued.err # ""
                 THEN [err |-> glued.err, heap |-> glued.heap, ref |-> 0]
                 ELSE [err |-> "",
                       heap |-> GlueAfterInPlace(glued.heap, rts, now, refIndex + 1,
                                                 result.ref),
                       ref |-> result.ref])))))))

\* ------------------------------------- the specification of the objects

NoObjectCall ==
    [call |-> "none", range |-> NullRange, ranges |-> <<>>, sorts |-> FALSE,
     before |-> <<>>, heap |-> <<>>, this |-> 0, array |-> 0, pushed |-> <<>>,
     err |-> "", result |-> <<>>]

InitObjects ==
    /\ roots \in RangeTrees
    /\ version = 0
    /\ liveRanges = <<>>
    /\ _ranges = <<>>
    /\ _lastRangeBackward = FALSE
    /\ _attrs = EmptyMap
    /\ _attributePriority = EmptyMap
    /\ listening = TRUE
    /\ steps = 0
    /\ applied = 0
    /\ last = NoObjectCall

\* range.getMinimalFlatRanges() on a Range object made for the call.
GetMinimalFlatRangesOfObject ==
    /\ NoCallYet
    /\ \E range \in Ranges(roots) :
           Let(NewRangeObject(<<>>, range), LAMBDA this :
           Let(Range_getMinimalFlatRanges(this.heap, roots, this.ref), LAMBDA st :
               RangeCalled([NoObjectCall EXCEPT !.call = "getMinimalFlatRanges",
                                                !.range = range,
                                                !.before = this.heap, !.this = this.ref,
                                                !.heap = st.heap, !.result = st.ranges,
                                                !.pushed = st.pushed])))

RECURSIVE NewRangeObjects(_, _)
\* The Range objects of a list of ranges: [heap, refs].
NewRangeObjects(heap, ranges) ==
    IF ranges = <<>> THEN [heap |-> heap, refs |-> <<>>]
    ELSE Let(NewRangeObject(heap, Head(ranges)), LAMBDA first :
         Let(NewRangeObjects(first.heap, Tail(ranges)), LAMBDA rest :
             [heap |-> rest.heap, refs |-> <<first.ref>> \o rest.refs]))

\* Range.createFromRanges( ranges ) on an array of Range objects made for
\* the call.
CreateFromRangesOfObjects ==
    /\ NoCallYet
    /\ \E ranges \in DisjointLists(FlatRanges(roots) \cup EmptyRanges(roots), MaxRanges),
          sorts \in BOOLEAN :
           Let(NewRangeObjects(<<>>, ranges), LAMBDA objects :
           Let(Append(objects.heap, ArrayObject(objects.refs)), LAMBDA before :
           Let(Range_createFromRanges(before, roots, Len(before), sorts), LAMBDA created :
               RangeCalled([NoObjectCall EXCEPT !.call = "createFromRanges",
                                                !.ranges = ranges, !.sorts = sorts,
                                                !.before = before, !.array = Len(before),
                                                !.heap = created.heap, !.err = created.err,
                                                !.result = created.ref]))))

NextObjects ==
    \/ GetMinimalFlatRangesOfObject
    \/ CreateFromRangesOfObjects

SpecObjects == InitObjects /\ [][NextObjects]_vars

\* ------------------------------------------------------------------ the selection observer
\* view/observer/selectionobserver.js. The observer, the view document it
\* belongs to and its two timers are one record, kept in `last`: the fields
\* isEnabled, isFocused, viewSelection belong to the observer and the view
\* document, domSelection and mutations to the DOM, untilClear to the
\* interval of the constructor, pending, untilDone, doneData to the debounced
\* function, events and warns to the step just taken. firedSinceClear,
\* sinceChange, lastData and doneSinceChange are history, read by the
\* properties only.

\* The limit of _isInfiniteLoop().
LoopLimit == 200

\* The wait of the debounced selectionChangeDone, in milliseconds.
DebounceWait == 200

\* The period of the interval which clears the loop counter, in milliseconds.
ClearInterval == 1000

\* The time one Tick step takes: half of the wait of the debounce.
TickLength == DebounceWait \div 2

\* The selection changes of one period in the specification of the observer.
MaxChanges == 3

\* The calls of the handler beyond the limit, in one period.
MaxOverLimit == 2

ViewSelections == {1, 2}

\* The third DOM selection is another DOM place of the second view selection.
DomSelections == {1, 2, 3}

\* DomConverter.domSelectionToView: DOM selections 2 and 3 are one view selection.
domSelectionToView(domSelection) == IF domSelection = 3 THEN 2 ELSE domSelection

\* The DOM selection the renderer sets for a view selection.
viewSelectionToDom(viewSelection) == viewSelection

NoData == [oldSelection |-> "none", newSelection |-> 0, domSelection |-> 0]

\* The state after the constructor: the interval is set, the counter is 0.
NewObserver ==
    [call |-> "new", isEnabled |-> FALSE, isFocused |-> FALSE, _documents |-> {},
     destroyed |-> FALSE, viewSelection |-> 1, domSelection |-> 1,
     mutations |-> FALSE, _loopbackCounter |-> 0,
     untilClear |-> ClearInterval \div TickLength,
     pending |-> FALSE, untilDone |-> 0, doneData |-> NoData,
     events |-> <<>>, warns |-> <<>>,
     firedSinceClear |-> 0, sinceChange |-> 0, lastData |-> NoData,
     doneSinceChange |-> 0]

\* document.fire( name, data )
documentFire(observer, name, data) ==
    [observer EXCEPT !.events = Append(@, [name |-> name, data |-> data])]

\* mutationObserver.flush(): the pending mutations are handled, the view is
\* rendered again and the DOM selection is the one of the view.
flushWithoutRender(observer) == observer

flush(observer) ==
    IF observer.mutations
    THEN [observer EXCEPT !.mutations = FALSE,
                          !.domSelection = viewSelectionToDom(observer.viewSelection)]
    ELSE observer

\* _isInfiniteLoop(), for the counter after its increment.
isInfiniteLoopNever(counter) == FALSE

isInfiniteLoop(counter) == counter > LoopLimit

\* _clearInfiniteLoop()
clearInfiniteLoopKeepingCounter(observer) == observer

clearInfiniteLoop(observer) == [observer EXCEPT !._loopbackCounter = 0]

\* The debounced function: a call sets the timer again and keeps the data of
\* this call.
fireSelectionChangeDoneKeepingFirst(observer, data) ==
    IF observer.pending
    THEN [observer EXCEPT !.untilDone = DebounceWait \div TickLength]
    ELSE [observer EXCEPT !.pending = TRUE,
                          !.untilDone = DebounceWait \div TickLength,
                          !.doneData = data]

fireSelectionChangeDoneDebounced(observer, data) ==
    [observer EXCEPT !.pending = TRUE,
                     !.untilDone = DebounceWait \div TickLength,
                     !.doneData = data]

\* The debounced function's cancel().
cancel(observer) ==
    [observer EXCEPT !.pending = FALSE, !.untilDone = 0, !.doneData = NoData]

\* The history of a fired selectionChange.
SelectionChangeFired(observer, data) ==
    [observer EXCEPT !.firedSinceClear = @ + 1, !.sinceChange = 0,
                     !.lastData = data, !.doneSinceChange = 0]

\* The handler goes on: this.isEnabled and this.document.isFocused.
isEnabledUnfocused(observer) == observer.isEnabled

isEnabledAndFocused(observer) == observer.isEnabled /\ observer.isFocused

\* _handleSelectionChange( data, domDocument )
handleSelectionChange(observer) ==
    IF ~isEnabledAndFocused(observer)
    THEN observer
    ELSE Let(flush(observer), LAMBDA flushed :
         Let(domSelectionToView(flushed.domSelection), LAMBDA newViewSelection :
         IF flushed.viewSelection = newViewSelection
         THEN flushed
         ELSE Let([flushed EXCEPT !._loopbackCounter = @ + 1], LAMBDA counted :
              IF isInfiniteLoop(counted._loopbackCounter)
              THEN [counted EXCEPT !.warns = Append(@, "selectionchange-infinite-loop")]
              ELSE Let([oldSelection |-> "document.selection",
                        newSelection |-> newViewSelection,
                        domSelection |-> flushed.domSelection], LAMBDA data :
                   fireSelectionChangeDoneDebounced(
                       SelectionChangeFired(documentFire(counted, "selectionChange", data), data),
                       data)))))

\* The observer at the start of a step: nothing is fired or logged yet.
Stepping(call) == [last EXCEPT !.call = call, !.events = <<>>, !.warns = <<>>]

ObserverStep(observer) ==
    /\ last' = observer
    /\ UNCHANGED <<roots, version, liveRanges, _ranges, _lastRangeBackward,
                   _attrs, _attributePriority, listening, steps, applied>>

\* observe( domElement ): one listener for the DOM document.
Observe ==
    /\ ~last.destroyed
    /\ ObserverStep([Stepping("observe") EXCEPT !._documents = @ \cup {"document"}])

\* Observer.enable() and disable()
Enable ==
    /\ ~last.destroyed
    /\ ~last.isEnabled
    /\ ObserverStep([Stepping("enable") EXCEPT !.isEnabled = TRUE])

Disable ==
    /\ last.isEnabled
    /\ ObserverStep([Stepping("disable") EXCEPT !.isEnabled = FALSE])

\* The view document gets and loses the focus.
Focus ==
    /\ ~last.isFocused
    /\ ObserverStep([Stepping("focus") EXCEPT !.isFocused = TRUE])

Blur ==
    /\ last.isFocused
    /\ ObserverStep([Stepping("blur") EXCEPT !.isFocused = FALSE])

\* A DOM mutation the mutation observer has not handled yet.
Mutation ==
    /\ ~last.mutations
    /\ ObserverStep([Stepping("mutation") EXCEPT !.mutations = TRUE])

\* The view selection is set, by a listener or by a command.
ViewSelectionSet ==
    \E viewSelection \in ViewSelections \ {last.viewSelection} :
        ObserverStep([Stepping("setTo") EXCEPT !.viewSelection = viewSelection])

\* The DOM selection changes and the DOM document fires selectionchange: the
\* listener of observe() calls the handler.
SelectionChange ==
    \E domSelection \in DomSelections :
        Let([Stepping("selectionchange") EXCEPT !.domSelection = domSelection],
            LAMBDA observer :
                ObserverStep(IF "document" \in observer._documents
                             THEN handleSelectionChange(observer)
                             ELSE observer))

DomSelectionChange ==
    /\ last._loopbackCounter < MaxChanges
    /\ SelectionChange

\* The timers, after one more TickLength: the interval of the constructor and
\* the timer of the debounced function.
IntervalTick(observer) ==
    IF observer.destroyed THEN observer
    ELSE IF observer.untilClear > 1
    THEN [observer EXCEPT !.untilClear = @ - 1]
    ELSE [clearInfiniteLoop(observer) EXCEPT !.untilClear = ClearInterval \div TickLength,
                                             !.firedSinceClear = 0]

DebounceTick(observer) ==
    IF ~observer.pending THEN observer
    ELSE IF observer.untilDone > 1
    THEN [observer EXCEPT !.untilDone = @ - 1]
    ELSE [cancel(documentFire(observer, "selectionChangeDone", observer.doneData))
             EXCEPT !.doneSinceChange = @ + 1]

Waited(observer) ==
    [observer EXCEPT !.sinceChange =
        IF @ < DebounceWait \div TickLength THEN @ + 1 ELSE @]

\* A timer runs: destroy() clears the interval, a debounced call it left
\* would still run.
Tick ==
    /\ ~last.destroyed \/ last.pending
    /\ ObserverStep(DebounceTick(IntervalTick(Waited(Stepping("tick")))))

\* destroy(): super.destroy() disables the observer and removes its
\* listeners, then the interval is cleared and the debounced call cancelled.
observerDestroyKeepingPending(observer) ==
    [observer EXCEPT !.isEnabled = FALSE, !._documents = {}, !.destroyed = TRUE]

observerDestroy(observer) ==
    cancel([observer EXCEPT !.isEnabled = FALSE, !._documents = {},
                            !.destroyed = TRUE])

DestroyObserver ==
    /\ ~last.destroyed
    /\ ObserverStep(observerDestroy(Stepping("destroy")))

InitObserver ==
    /\ roots = [main |-> Element("$root", <<>>), graveyard |-> Element("$root", <<>>)]
    /\ version = 0
    /\ liveRanges = <<>>
    /\ _ranges = <<>>
    /\ _lastRangeBackward = FALSE
    /\ _attrs = EmptyMap
    /\ _attributePriority = EmptyMap
    /\ listening = TRUE
    /\ steps = 0
    /\ applied = 0
    /\ last = NewObserver

NextObserver ==
    \/ Observe
    \/ Enable
    \/ Disable
    \/ Focus
    \/ Blur
    \/ Mutation
    \/ ViewSelectionSet
    \/ DomSelectionChange
    \/ Tick
    \/ DestroyObserver

SpecObserver == InitObserver /\ [][NextObserver]_vars

\* The observer of a focused editor: enabled, observing the DOM document.
InitLoop ==
    /\ roots = [main |-> Element("$root", <<>>), graveyard |-> Element("$root", <<>>)]
    /\ version = 0
    /\ liveRanges = <<>>
    /\ _ranges = <<>>
    /\ _lastRangeBackward = FALSE
    /\ _attrs = EmptyMap
    /\ _attributePriority = EmptyMap
    /\ listening = TRUE
    /\ steps = 0
    /\ applied = 0
    /\ last = [NewObserver EXCEPT !.isEnabled = TRUE, !.isFocused = TRUE,
                                  !._documents = {"document"}]

LoopSelectionChange ==
    /\ last._loopbackCounter < LoopLimit + MaxOverLimit
    /\ SelectionChange

NextLoop ==
    \/ LoopSelectionChange
    \/ Tick

SpecLoop == InitLoop /\ [][NextLoop]_vars

\* ------------------------------------------------------------------ claims

ApplyCalls == {"applyOperation", "applyReversed"}

\* C1: the version starts at 0 and counts the operations applied
\* successfully: an application that succeeds adds exactly 1, and an
\* operation whose base version is not the document's version fails with
\* the version-mismatch error and leaves the version and the tree as they
\* were.
C1_VersionCountsApplied ==
    [][ /\ version = applied /\ version' = applied'
        /\ (steps = 0 => version = 0)
        /\ last'.call \in ApplyCalls =>
              /\ last'.err = "" => version' = version + 1
              /\ last'.baseVersion # version =>
                    /\ last'.err = "model-document-applyOperation-wrong-version"
                    /\ version' = version
                    /\ roots' = roots ]_vars

C1_Witness ==
    /\ last.call = "applyOperation"
    /\ last.err = "model-document-applyOperation-wrong-version"
    /\ version = 2
    /\ applied = 2

\* C2: when ChangeOperation._execute fails because a node of the range
\* lacks the attribute to remove, or has the key of the attribute to add,
\* no node has been changed: the trees are as before the call.
C2_NoPartialMutation ==
    [][ (/\ last'.call \in ApplyCalls
         /\ last'.err \in {"operation-change-no-attr-to-remove",
                           "operation-change-attr-exists"})
        => roots' = roots ]_vars

\* A failed attribute operation that has changed the tree.
C2_Witness ==
    /\ last.call = "applyOperation"
    /\ last.err = "operation-change-no-attr-to-remove"
    /\ roots.main # last.before.main

SameValue(attrs, key, other) ==
    /\ MapHas(attrs, key) <=> MapHas(other, key)
    /\ MapHas(attrs, key) => attrs[key] = other[key]

\* C4: the update of the selection's attributes that follows an operation
\* applied to the document never changes or removes the value of a key
\* whose recorded priority is normal, the priority of its last modification
\* through the selection's methods.
C4_LowKeepsNormal ==
    [][ last'.call \in ApplyCalls =>
          \A key \in Keys :
              (MapHas(_attributePriority, key) /\ _attributePriority[key] = "normal")
              => /\ SameValue(_attrs, key, _attrs')
                 /\ MapHas(_attributePriority', key)
                 /\ _attributePriority'[key] = "normal" ]_vars

\* An attribute operation has changed the text at the selection to a value
\* other than the one set through the selection, which is kept.
C4_Witness ==
    /\ last.call = "applyOperation"
    /\ last.err = ""
    /\ last.op.type = "attribute"
    /\ MapHas(_attributePriority, "bold")
    /\ _attributePriority["bold"] = "normal"
    /\ MapHas(_attrs, "bold")
    /\ ~SameValue(_attrs, "bold", getSurroundingAttributes(Sel, roots))

\* C5: after any call setAttribute( key, value ) the recorded priority of
\* the key is normal.
C5_SetAttributeIsNormal ==
    last.call = "setAttribute" =>
        /\ MapHas(_attributePriority, last.key)
        /\ _attributePriority[last.key] = "normal"

\* setAttribute has returned and the key has low priority.
C5_Witness ==
    /\ last.call = "setAttribute"
    /\ last.err = ""
    /\ MapHas(_attrs, last.key)
    /\ _attrs[last.key] = last.value
    /\ MapHas(_attributePriority, last.key)
    /\ _attributePriority[last.key] = "low"

\* C6: the selection is never empty: rangeCount is at least 1 and getRanges
\* yields at least one range; while it holds no range it reports one range,
\* the document's default range, is collapsed and not backward, and its
\* anchor and focus are the start of the default range.
C6_NeverEmpty ==
    /\ rangeCount(Sel) >= 1
    /\ Len(getRanges(Sel, roots)) = rangeCount(Sel)
    /\ _ranges = <<>> =>
          /\ rangeCount(Sel) = 1
          /\ getRanges(Sel, roots) = <<getDefaultRange(roots)>>
          /\ getFirstRange(Sel, roots) = getDefaultRange(roots)
          /\ LiveSelection_isCollapsed(Sel)
          /\ ~LiveSelection_isBackward(Sel)
          /\ anchor(Sel, roots) = getDefaultRange(roots).start
          /\ focus(Sel, roots) = getDefaultRange(roots).start

\* Ranges were added, the last one backward, and all have been removed.
C6_Witness ==
    /\ last.call = "removeAllRanges"
    /\ _ranges = <<>>
    /\ Len(liveRanges) = 2
    /\ _lastRangeBackward

C8_GraveyardRangeRejected ==
    [][ (last'.call = "addRange" /\ RangeRoot(last'.range) = "graveyard") =>
          /\ _ranges' = _ranges
          /\ liveRanges' = liveRanges
          /\ last'.warns = 1
          /\ last'.err = "" ]_vars

\* A range in the graveyard was given to a selection that holds a range.
C8_Witness ==
    /\ last.call = "addRange"
    /\ RangeRoot(last.range) = "graveyard"
    /\ last.warns = 1
    /\ _ranges # <<>>

\* C9: addRange and setRanges given an object that is no Range throw
\* model-selection-added-not-range, and the failed addRange leaves the
\* selection's ranges as they were.
C9_NotARangeRejected ==
    [][ /\ (last'.call \in {"addRange", "setRanges"} /\ last'.range = NotARange)
           => last'.err = "model-selection-added-not-range"
        /\ (last'.call = "addRange" /\ last'.range = NotARange)
           => /\ _ranges' = _ranges
              /\ liveRanges' = liveRanges ]_vars

\* An object that is no Range was given to a selection that holds a range.
C9_Witness ==
    /\ last.call = "addRange"
    /\ last.range = NotARange
    /\ last.err = "model-selection-added-not-range"
    /\ _ranges # <<>>

\* C10: every attached live range the selection has created is one of its
\* ranges, and after destroy the selection holds no range.
C10_AttachedAreHeld ==
    /\ \A i \in 1..Len(liveRanges) :
          liveRanges[i].attached => \E j \in 1..Len(_ranges) : _ranges[j] = i
    /\ ~listening => _ranges = <<>>

\* A live range the selection no longer holds is still attached.
C10_Witness ==
    /\ last.call = "applyOperation"
    /\ \E i \in 1..Len(liveRanges) :
          /\ liveRanges[i].attached
          /\ \A j \in 1..Len(_ranges) : _ranges[j] # i

\* The calls of a method on a range with a range equal to it as argument.
SelfCall(name) ==
    last.call = name /\ isEqual(last.range, last.otherRange)

\* C11 as the specification states it: for every range R, collapsed or
\* not, R.getDifference( R ) is the empty list and R.getIntersection( R )
\* is a range equal to R.
C11_SelfDifferenceEmpty ==
    /\ SelfCall("getDifference") => last.result = <<>>
    /\ SelfCall("getIntersection") =>
           last.result # NullRange /\ isEqual(last.result, last.range)

\* C11 as the code has it: for every range R that is not collapsed,
\* R.getDifference( R ) is the empty list and R.getIntersection( R ) is a
\* range equal to R; a collapsed R does not intersect itself, so that
\* R.getDifference( R ) is the list of R alone and R.getIntersection( R ) is
\* null.
C11_SelfDifferenceEmptyUnlessCollapsed ==
    /\ SelfCall("getDifference") =>
           last.result = IF isCollapsed(last.range) THEN <<last.range>> ELSE <<>>
    /\ SelfCall("getIntersection") =>
           IF isCollapsed(last.range) THEN last.result = NullRange
           ELSE last.result # NullRange /\ isEqual(last.result, last.range)

C11_Witness ==
    /\ SelfCall("getDifference")
    /\ ~isCollapsed(last.range)
    /\ ~isFlat(last.range)
    /\ last.result = <<>>

\* The positions of the document a range covers: those from its start on
\* that are before its end, each standing for what follows it.
Covered(range) ==
    {pos \in MainPositions(roots) : ~isBefore(pos, range.start) /\ isBefore(pos, range.end)}

\* The ranges A.getDifference( B ) returned, and A.getIntersection( B ) when
\* it is not null.
PartsOf(difference, intersection) ==
    difference \o (IF intersection # NullRange THEN <<intersection>> ELSE <<>>)

\* Whether no two of the ranges overlap and together they cover `covered`.
Tiles(parts, covered) ==
    /\ \A i \in 1..Len(parts), j \in 1..Len(parts) :
           i # j => /\ ~isIntersecting(parts[i], parts[j])
                    /\ Covered(parts[i]) \cap Covered(parts[j]) = {}
    /\ UNION {Covered(parts[i]) : i \in 1..Len(parts)} = covered

\* C12: for all ranges A and B of one root, the ranges of
\* A.getDifference( B ) and A.getIntersection( B ), when it is not null, do
\* not overlap one another and together cover exactly the positions A covers.
C12_DifferenceAndIntersectionTile ==
    last.call = "getDifference" =>
        Tiles(PartsOf(last.result, getIntersection(last.range, last.otherRange)),
              Covered(last.range))

C12_Witness ==
    /\ last.call = "getDifference"
    /\ Len(last.result) = 2
    /\ ~isFlat(last.range)
    /\ ~isCollapsed(getIntersection(last.range, last.otherRange))
    /\ Covered(last.result[1]) # {} /\ Covered(last.result[2]) # {}

\* Whether `outer` reaches at least from the start to the end of `inner`.
FullyContains(outer, inner) ==
    ~isAfter(outer.start, inner.start) /\ ~isBefore(outer.end, inner.end)

\* Whether `inner` starts after the start and ends before the end of `outer`.
StrictlyInside(inner, outer) ==
    isBefore(outer.start, inner.start) /\ isBefore(inner.end, outer.end)

\* What C13 says of every number of ranges but none.
DifferenceOfTwoOrOne(A, B, result) ==
    /\ Len(result) \in {0, 1, 2}
    /\ Len(result) = 2 <=> StrictlyInside(B, A)
    /\ Len(result) = 2 => result = <<Range(A.start, B.start), Range(B.end, A.end)>>
    /\ ~isIntersecting(A, B) => result = <<A>>

\* C13 as the specification states it: A.getDifference( B ) returns no
\* range exactly when B fully contains A, the two ranges [A.start, B.start]
\* and [B.end, A.end] exactly when B lies strictly inside A, and one range
\* in every other case, which is A when A and B do not intersect.
C13_DifferenceCount ==
    last.call = "getDifference" =>
        /\ DifferenceOfTwoOrOne(last.range, last.otherRange, last.result)
        /\ Len(last.result) = 0 <=> FullyContains(last.otherRange, last.range)

\* C13 as the code has it: no range is returned exactly when B fully
\* contains A and A intersects B, that is unless A is collapsed and lies at
\* a boundary of B or on a collapsed B; in that case A alone is returned.
C13_DifferenceCountOfIntersecting ==
    last.call = "getDifference" =>
        /\ DifferenceOfTwoOrOne(last.range, last.otherRange, last.result)
        /\ Len(last.result) = 0 <=> /\ FullyContains(last.otherRange, last.range)
                                    /\ isIntersecting(last.range, last.otherRange)
        /\ (FullyContains(last.otherRange, last.range) /\ ~isCollapsed(last.range))
               => last.result = <<>>

C13_Witness ==
    /\ last.call = "getDifference"
    /\ FullyContains(last.otherRange, last.range)
    /\ ~isCollapsed(last.range)
    /\ ~isEqual(last.range, last.otherRange)
    /\ last.result = <<>>

\* Whether the ranges share a point: a position both cover, or the point a
\* collapsed one is at when the other contains it.
SharePoint(A, B) ==
    \/ Covered(A) \cap Covered(B) # {}
    \/ isCollapsed(A) /\ containsPosition(B, A.start)
    \/ isCollapsed(B) /\ containsPosition(A, B.start)

\* C14: A.isIntersecting( B ) is true exactly when the ranges share any
\* point, which is the condition A.start < B.end and A.end > B.start, and
\* B.isIntersecting( A ) is the same.
C14_IntersectingIsSymmetric ==
    last.call = "isIntersecting" =>
        /\ last.result = (/\ isBefore(last.range.start, last.otherRange.end)
                          /\ isAfter(last.range.end, last.otherRange.start))
        /\ last.result = SharePoint(last.range, last.otherRange)
        /\ last.result = isIntersecting(last.otherRange, last.range)

C14_Witness ==
    /\ last.call = "isIntersecting"
    /\ last.result = TRUE
    /\ ~isEqual(last.range, last.otherRange)
    /\ ~FullyContains(last.range, last.otherRange)
    /\ ~FullyContains(last.otherRange, last.range)
    /\ ~isFlat(last.range)

\* The paths of the nodes of the main root wholly contained in a range: the
\* position before the node is not before the start of the range, and the
\* position after it is not after the end.
NodesWhollyIn(range) ==
    Let(PathsFrom(roots.main, <<>>, 1), LAMBDA paths :
        {paths[i] : i \in {k \in 1..Len(paths) :
            /\ ~isBefore(Position("main", paths[k]), range.start)
            /\ ~isAfter(getShiftedBy(Position("main", paths[k]), 1), range.end)}})

\* C15: getMinimalFlatRanges returns ranges that are flat and contain at
\* least one node each, in document order and not overlapping, whose nodes
\* together are exactly the nodes wholly contained in the range; no range
\* for a collapsed range, the range alone for a flat range that is not
\* collapsed.
C15_MinimalFlatRanges ==
    last.call = "getMinimalFlatRanges" =>
        /\ \A i \in 1..Len(last.result) :
               /\ isFlat(last.result[i])
               /\ IsValidPosition(roots, last.result[i].start)
               /\ IsValidPosition(roots, last.result[i].end)
               /\ isBefore(last.result[i].start, last.result[i].end)
               /\ NodesWhollyIn(last.result[i]) # {}
        /\ \A i \in 1..Len(last.result), j \in 1..Len(last.result) :
               i < j => /\ ~isAfter(last.result[i].end, last.result[j].start)
                        /\ ~isIntersecting(last.result[i], last.result[j])
        /\ UNION {NodesWhollyIn(last.result[i]) : i \in 1..Len(last.result)}
               = NodesWhollyIn(last.range)
        /\ isCollapsed(last.range) => last.result = <<>>
        /\ (isFlat(last.range) /\ ~isCollapsed(last.range)) => last.result = <<last.range>>

C15_Witness ==
    /\ last.call = "getMinimalFlatRanges"
    /\ Len(last.result) = 2
    /\ Len(last.range.start.path) = 3
    /\ Len(last.result[2].start.path) = 2

\* C16: in the list getTransformedByDeltas returns, for any sequence of
\* deltas, no range is equal to another and no range is wholly contained in
\* another.
C16_NoRangeInsideAnother ==
    last.call = "getTransformedByDeltas" =>
        \A i \in 1..Len(last.result), j \in 1..Len(last.result) :
            i # j => /\ ~isEqual(last.result[i], last.result[j])
                     /\ ~containsRange(last.result[i], last.result[j])

\* The second loop of getTransformedByDeltas has removed a range.
C16_Witness ==
    /\ last.call = "getTransformedByDeltas"
    /\ Len(last.deltas) = 2
    /\ Len(last.result) < Len(DeltasLoop(<<last.range>>, 1, last.deltas, 1))

\* Whether the boundary is after the insertion position in the parent of
\* that position, or inside a node that follows the position there.
AfterInParent(boundary, insertPosition) ==
    /\ Len(boundary.path) >= Len(insertPosition.path)
    /\ SubSeq(boundary.path, 1, Len(insertPosition.path) - 1) = getParentPath(insertPosition)
    /\ \/ boundary.path[Len(insertPosition.path)] > offset(insertPosition)
       \/ /\ boundary.path[Len(insertPosition.path)] = offset(insertPosition)
          /\ Len(boundary.path) > Len(insertPosition.path)

\* Where C17 says an insertion of howMany nodes takes a boundary that is not
\* at the insertion position.
ShiftedAtDepth(boundary, insertPosition, howMany) ==
    IF AfterInParent(boundary, insertPosition)
    THEN [boundary EXCEPT !.path[Len(insertPosition.path)] = @ + howMany]
    ELSE boundary

\* C17: transforming a range by an insertion of n nodes at p without
\* spreading gives one range; every boundary after p in the parent of p, or
\* inside a later sibling there, is shifted by n at the depth of p, and every
\* boundary before p or in another parent is unchanged. Three nodes inserted
\* at [0,1] move [0,2] to [0,5] and leave [1,4] where it is. A document
\* change of type insert transforms a range, as a live range, in this way.
C17_InsertionShiftsAtDepth ==
    (last.call = "_getTransformedByInsertion" /\ ~last.spread) =>
        /\ Len(last.result) = 1
        /\ last.range.start # last.position =>
               last.result[1].start
                   = ShiftedAtDepth(last.range.start, last.position, last.howMany)
        /\ last.range.end # last.position =>
               last.result[1].end
                   = ShiftedAtDepth(last.range.end, last.position, last.howMany)
        /\ (/\ last.range = Range(Position("main", <<0, 2>>), Position("main", <<1, 4>>))
            /\ last.position = Position("main", <<0, 1>>) /\ last.howMany = 3)
               => last.result = <<Range(Position("main", <<0, 5>>), Position("main", <<1, 4>>))>>
        /\ ~last.isSticky =>
               last.result = getTransformedByDocumentChange(last.range, "insert", last.position,
                                                            last.howMany, NullPosition)

C17_Witness ==
    /\ last.call = "_getTransformedByInsertion" /\ ~last.spread /\ ~last.isSticky
    /\ last.range = Range(Position("main", <<0, 2>>), Position("main", <<1, 4>>))
    /\ last.position = Position("main", <<0, 1>>) /\ last.howMany = 3
    /\ last.result = <<Range(Position("main", <<0, 5>>), Position("main", <<1, 4>>))>>

\* C18: for a range that is not collapsed and an insertion exactly at one of
\* its boundaries, isSticky false keeps the inserted nodes out of the range
\* (at the start the start moves forward by the number of nodes, at the end
\* the end stays) and isSticky true takes them in (at the start the start
\* stays, at the end the end moves forward by the number of nodes).
C18_StickyAtBoundary ==
    (last.call = "_getTransformedByInsertion" /\ ~isCollapsed(last.range)) =>
        /\ last.position = last.range.start =>
               /\ Len(last.result) = 1
               /\ last.result[1].start
                      = IF last.isSticky THEN last.range.start
                        ELSE getShiftedBy(last.range.start, last.howMany)
        /\ last.position = last.range.end =>
               /\ Len(last.result) = 1
               /\ last.result[1].end
                      = IF last.isSticky THEN getShiftedBy(last.range.end, last.howMany)
                        ELSE last.range.end

C18_Witness ==
    /\ last.call = "_getTransformedByInsertion" /\ ~isCollapsed(last.range)
    /\ last.isSticky /\ last.position = last.range.end /\ last.howMany = 2
    /\ ~isFlat(last.range)
    /\ last.result = <<Range(last.range.start, getShiftedBy(last.range.end, 2))>>

\* C19: with spread true and the insertion position strictly inside the
\* range, _getTransformedByInsertion returns exactly two ranges, one from the
\* start to the insertion position and one from the insertion position
\* shifted past the inserted nodes to the end as the insertion shifts it, so
\* that the inserted nodes are in neither; in every other case it returns
\* exactly one range.
C19_SpreadGivesTwoRanges ==
    last.call = "_getTransformedByInsertion" =>
        IF last.spread /\ containsPosition(last.range, last.position)
        THEN /\ last.result
                    = << Range(last.range.start, last.position),
                         Range(getShiftedBy(last.position, last.howMany),
                               ShiftedAtDepth(last.range.end, last.position, last.howMany)) >>
             /\ \A k \in 0..(last.howMany - 1) :
                    \A i \in 1..2 :
                        /\ ~containsPosition(last.result[i], getShiftedBy(last.position, k))
                        /\ last.result[i].start # getShiftedBy(last.position, k)
        ELSE Len(last.result) = 1

C19_Witness ==
    /\ last.call = "_getTransformedByInsertion"
    /\ last.spread /\ containsPosition(last.range, last.position)
    /\ Len(last.result) = 2
    /\ ~isFlat(last.range)
    /\ last.result[2].end # last.range.end
    /\ last.howMany = 3

\* C20: a collapsed range transformed by an insertion, whatever spread and
\* isSticky are, or by a move, gives exactly one range, which is collapsed.
C20_CollapsedStaysCollapsed ==
    (/\ last.call \in {"_getTransformedByInsertion", "_getTransformedByMove"}
     /\ isCollapsed(last.range)) =>
        /\ Len(last.result) = 1
        /\ isCollapsed(last.result[1])

\* A caret among moved nodes goes with them.
C20_Witness ==
    /\ last.call = "_getTransformedByMove"
    /\ isCollapsed(last.range)
    /\ last.howMany = 2
    /\ last.range.start = getShiftedBy(last.sourcePosition, 1)
    /\ last.position.root = "main"
    /\ Len(last.result) = 1
    /\ isCollapsed(last.result[1])
    /\ last.result[1] # last.range

\* The call of the scenario of C21: Range( [0,2], [0,5] ) transformed by the
\* delta of a RemoveOperation that removes two nodes at [0,2].
RemovalOfTwoAtStart ==
    /\ last.call = "getTransformedByDelta"
    /\ last.range = Range(Position("main", <<0, 2>>), Position("main", <<0, 5>>))
    /\ Len(last.deltas[1]) = 1
    /\ last.deltas[1][1].type = "remove"
    /\ last.deltas[1][1].sourcePosition = Position("main", <<0, 2>>)
    /\ last.deltas[1][1].howMany = 2

\* C21 as the specification states it: Range( [0,2], [0,5] ) transformed by
\* a RemoveOperation that removes 2 nodes at [0,2] becomes the range from
\* [0,2] to [0,3].
C21_RemovalShrinksRange ==
    RemovalOfTwoAtStart =>
        last.result = <<Range(Position("main", <<0, 2>>), Position("main", <<0, 3>>))>>

\* C21 as the code has it: two ranges are returned, the range from [0,2] to
\* [0,3], and after it the range of the two removed nodes in their holder in
\* the graveyard.
C21_RemovalShrinksAndFollows ==
    RemovalOfTwoAtStart =>
        last.result = << Range(Position("main", <<0, 2>>), Position("main", <<0, 3>>)),
                         Range(last.deltas[1][1].targetPosition,
                               getShiftedBy(last.deltas[1][1].targetPosition, 2)) >>

C21_Witness ==
    /\ RemovalOfTwoAtStart
    /\ last.result[1] = Range(Position("main", <<0, 2>>), Position("main", <<0, 3>>))
    /\ last.deltas[1][1].targetPosition = Position("graveyard", <<0, 0>>)

\* The range `cur` grown by the ranges that touch it at its start or end.
Grow(rts, ranges, cur) ==
    Let({i \in 1..Len(ranges) : isTouching(rts, ranges[i].end, cur.start)}, LAMBDA before :
    Let({i \in 1..Len(ranges) : isTouching(rts, ranges[i].start, cur.end)}, LAMBDA after :
        Range(IF before # {} THEN ranges[Min(before)].start ELSE cur.start,
              IF after # {} THEN ranges[Min(after)].end ELSE cur.end)))

RECURSIVE ChainSpan(_, _, _, _)
\* The range over `cur` and every range a chain of touching ranges joins to
\* it: `cur` grown n times.
ChainSpan(rts, ranges, cur, n) ==
    IF n = 0 THEN cur ELSE ChainSpan(rts, ranges, Grow(rts, ranges, cur), n - 1)

\* C22: Range.createFromRanges, given ranges that do not overlap, the
\* reference range first, returns the range over the reference range and
\* every passed range a chain of touching ranges joins to it, before and
\* after it, and over no range a gap separates from that chain, however
\* many touching ranges are before the reference range.
C22_SpansTouchingChain ==
    (last.call = "createFromRanges" /\ Len(last.ranges) >= 1) =>
        /\ last.err = ""
        /\ last.result = ChainSpan(roots, last.ranges, last.ranges[1], Len(last.ranges))

\* Two touching ranges before the reference range, in an engine that sorts.
C22_Witness ==
    /\ last.call = "createFromRanges" /\ last.sorts /\ Len(last.ranges) = 3
    /\ last.err = ""
    /\ isTouching(roots, last.ranges[2].end, last.ranges[1].start)
    /\ isTouching(roots, last.ranges[3].end, last.ranges[2].start)
    /\ last.result = Range(last.ranges[2].start, last.ranges[1].end)

\* C23: Range.createFromRanges fails with range-create-from-ranges-empty-array
\* when the array is empty, and returns a range equal to the passed range when
\* the array holds one range.
C23_NoneOrOneRange ==
    last.call = "createFromRanges" =>
        /\ Len(last.ranges) = 0 =>
               last.err = "range-create-from-ranges-empty-array" /\ last.result = NullRange
        /\ Len(last.ranges) = 1 =>
               last.err = "" /\ isEqual(last.result, last.ranges[1])

C23_Witness ==
    /\ last.call = "createFromRanges" /\ Len(last.ranges) = 0
    /\ last.err = "range-create-from-ranges-empty-array"

\* Whether the start of the range is not after its end.
Normalized(range) == ~isAfter(range.start, range.end)

\* The calls that return a list of ranges, and those that return a range.
ReturnsRanges ==
    last.call \in {"getDifference", "getMinimalFlatRanges", "_getTransformedByInsertion",
                   "_getTransformedByMove"}

ReturnsRange ==
    \/ last.call \in {"new Range", "createFromPositionAndShift", "createFromParentsAndOffsets",
                      "createIn", "createOn"}
    \/ last.call \in {"getIntersection", "createFromRanges"} /\ last.result # NullRange

\* Whether the call is given a start that is after the end.
GivenStartAfterEnd ==
    /\ last.call \in {"new Range", "createFromParentsAndOffsets"}
    /\ last.end # NullPosition
    /\ isAfter(last.start, last.end)

\* C24 as the specification states it: in every range the constructor, a
\* factory method (createFromPositionAndShift with a positive, zero or
\* negative shift, createFromParentsAndOffsets, createIn, createOn,
\* createFromRanges), getDifference, getIntersection or a transformation
\* method gives, the start is not after the end.
C24_EveryRangeNormalized ==
    /\ ReturnsRanges => \A i \in 1..Len(last.result) : Normalized(last.result[i])
    /\ ReturnsRange => Normalized(last.result)

\* Whether createFromRanges is given a range that holds no node.
GivenEmptyRange ==
    /\ last.call = "createFromRanges"
    /\ \E i \in 1..Len(last.ranges) :
           isTouching(roots, last.ranges[i].start, last.ranges[i].end)

\* What holds of the ranges the methods give: the constructor and
\* createFromParentsAndOffsets keep the positions as they are given, so that
\* their range has its start after its end exactly when they are given so;
\* every other method, given ranges whose start is not after the end, gives
\* such ranges, but for createFromRanges given a range that holds no node.
C24_NormalizedUnlessGivenInverted ==
    /\ ReturnsRanges => \A i \in 1..Len(last.result) : Normalized(last.result[i])
    /\ (ReturnsRange /\ ~GivenEmptyRange)
           => (Normalized(last.result) <=> ~GivenStartAfterEnd)

\* createFromRanges, given two ranges whose start is not after their end,
\* has returned a range whose start is after its end.
C24_Witness ==
    /\ last.call = "createFromRanges"
    /\ Len(last.ranges) = 2
    /\ \A i \in 1..2 : Normalized(last.ranges[i])
    /\ last.err = ""
    /\ isAfter(last.result.start, last.result.end)

\* Whether the split element of the SplitDelta `b` is one of the nodes the
\* RemoveDelta `a` removes.
SplitElementInSpan(a, b) ==
    LET source == a.operations[1].sourcePosition
        splitElement == getShiftedBy(b.operations[1].targetPosition, -1)
    IN  /\ source.root = splitElement.root
        /\ getParentPath(source) = getParentPath(splitElement)
        /\ offset(source) <= offset(splitElement)
        /\ offset(splitElement) < offset(source) + a.operations[1].howMany

RemoveBySplitCase ==
    /\ last.call \in {"transform", "applied"}
    /\ last.b.type = "split"
    /\ SplitElementInSpan(last.a, last.b)

\* C25: transform( removeDelta, splitDelta ) of deltas of one base version,
\* the split element being among the removed nodes, is one RemoveDelta of one
\* RemoveOperation with the source position of removeDelta, one node more and
\* the base version after the operations of splitDelta; after splitDelta
\* and it are applied the main root is the one before without the removed
\* nodes, neither half of the split element left.
C25_RemoveBySplitTakesBothHalves ==
    RemoveBySplitCase =>
        /\ Len(last.result) = 1
        /\ last.result[1].type = "remove"
        /\ Len(last.result[1].operations) = 1
        /\ Let(last.result[1].operations[1], LAMBDA operation :
               /\ operation.type = "remove"
               /\ operation.sourcePosition = last.a.operations[1].sourcePosition
               /\ operation.howMany = last.a.operations[1].howMany + 1
               /\ operation.baseVersion = last.baseVersion + Len(last.b.operations))
        /\ last.call = "applied" =>
               /\ last.err = ""
               /\ version = last.baseVersion + Len(last.b.operations) + 1
               /\ roots.main = removeChildren(last.before,
                                              last.a.operations[1].sourcePosition,
                                              last.a.operations[1].howMany).main

\* The split element is the last of two removed nodes, and the deltas are applied.
C25_Witness ==
    /\ RemoveBySplitCase
    /\ last.call = "applied"
    /\ last.a.operations[1].howMany = 2
    /\ getShiftedBy(last.a.operations[1].sourcePosition, 2)
           = last.b.operations[1].targetPosition
    /\ last.baseVersion = 1

\* Whether the RemoveDelta `a` removes the element the MergeDelta `b` empties,
\* the one after the merge position.
RemovesMergedElement(a, b) ==
    LET source == a.operations[1].sourcePosition
        mergePosition == b.operations[2].sourcePosition
    IN  /\ source.root = mergePosition.root
        /\ getParentPath(source) = getParentPath(mergePosition)
        /\ offset(source) <= offset(mergePosition)
        /\ offset(mergePosition) < offset(source) + a.operations[1].howMany

RemoveByMergeCase ==
    /\ last.call \in {"transform", "applied"}
    /\ last.b.type = "merge"
    /\ RemovesMergedElement(last.a, last.b)

\* C26: transform( removeDelta, mergeDelta ) of deltas of one base version,
\* removeDelta removing the element after the merge position, is a SplitDelta
\* and then a RemoveDelta. The SplitDelta moves the merged element from the
\* graveyard back to the merge position and then the merged children back
\* into it; the RemoveDelta has the source position and howMany of
\* removeDelta; the three operations have the base versions that follow the
\* operations of mergeDelta; after mergeDelta and the two deltas are
\* applied the main root is the one before without the removed nodes.
C26_RemoveByMergeUndoesMerge ==
    RemoveByMergeCase =>
        /\ Len(last.result) = 2
        /\ last.result[1].type = "split"
        /\ Len(last.result[1].operations) = 2
        /\ Let(last.result[1].operations, LAMBDA operations :
               /\ operations[1].type \in {"move", "reinsert"}
               /\ operations[1].sourcePosition = last.b.operations[2].targetPosition
               /\ operations[1].sourcePosition.root = "graveyard"
               /\ operations[1].howMany = 1
               /\ operations[1].targetPosition = last.b.operations[2].sourcePosition
               /\ operations[1].baseVersion = last.baseVersion + Len(last.b.operations)
               /\ operations[2].type = "move"
               /\ operations[2].sourcePosition = last.b.operations[1].targetPosition
               /\ operations[2].howMany = last.b.operations[1].howMany
               /\ operations[2].targetPosition = last.b.operations[1].sourcePosition
               /\ operations[2].baseVersion = last.baseVersion + Len(last.b.operations) + 1)
        /\ last.result[2].type = "remove"
        /\ Len(last.result[2].operations) = 1
        /\ Let(last.result[2].operations[1], LAMBDA operation :
               /\ operation.type = "remove"
               /\ operation.sourcePosition = last.a.operations[1].sourcePosition
               /\ operation.howMany = last.a.operations[1].howMany
               /\ operation.baseVersion = last.baseVersion + Len(last.b.operations) + 2)
        /\ last.call = "applied" =>
               /\ last.err = ""
               /\ version = last.baseVersion + Len(last.b.operations) + 3
               /\ roots.main = removeChildren(last.before,
                                              last.a.operations[1].sourcePosition,
                                              last.a.operations[1].howMany).main

\* The merged element alone is removed, and the deltas are applied.
C26_Witness ==
    /\ RemoveByMergeCase
    /\ last.call = "applied"
    /\ last.a.operations[1].howMany = 1
    /\ last.b.operations[1].howMany = 2
    /\ last.baseVersion = 1

\* How many of isBefore, isAfter and isEqual the compared positions gave.
HoldingComparisons == Cardinality({k \in 1..3 : last.result[k]})

Detached == {i \in 1..Len(liveRanges) : ~liveRanges[i].attached}

\* A step leaves every detached live range as it is: detached, with the
\* boundaries it had.
DetachedAreLeftAlone ==
    \A i \in Detached : i <= Len(liveRanges') /\ liveRanges'[i] = liveRanges[i]

\* C28: a live range is attached or detached; detach() makes it detached and
\* a second detach() changes nothing; once detached it is never attached
\* again and no operation applied to the document moves its boundaries (a
\* live range fires its change event only when its boundaries have moved).
C28_DetachedIsTerminal ==
    /\ [](\A i \in 1..Len(liveRanges) :
              /\ liveRanges[i].attached \in BOOLEAN
              /\ ~detach(Sel, i).liveRanges[i].attached
              /\ detach(detach(Sel, i), i) = detach(Sel, i))
    /\ [][DetachedAreLeftAlone]_vars

\* An insertion has been applied before the start of a detached live range,
\* in the parent of that start.
C28_Witness ==
    /\ last.call = "applyOperation"
    /\ last.err = ""
    /\ last.op.type = "insert"
    /\ \E i \in Detached :
           /\ liveRanges[i].start.root = "main"
           /\ getParentPath(liveRanges[i].start) = getParentPath(last.op.targetPosition)
           /\ offset(last.op.targetPosition) <= offset(liveRanges[i].start)
           /\ ~isCollapsed(RangeOf(liveRanges[i]))

\* The types of the operations of the delta the range was transformed by.
TypesOfDelta == {last.deltas[1][k].type : k \in 1..Len(last.deltas[1])}

\* C29: getTransformedByDelta is affected by insert, move, remove and
\* reinsert operations only: for a delta all of whose operations are
\* attribute, root attribute, rename or no-op operations it returns one
\* range, equal to the range it was called on.
C29_OtherOperationsLeaveRange ==
    (/\ last.call = "getTransformedByDelta"
     /\ TypesOfDelta \subseteq {"attribute", "rootAttribute", "rename", "noop"}) =>
        last.result = <<last.range>>

\* The range was transformed by a delta of two operations, one that changes
\* an attribute of the first node of the range and one that renames the
\* paragraph the range is in.
C29_Witness ==
    /\ last.call = "getTransformedByDelta"
    /\ Len(last.deltas[1]) = 2
    /\ last.deltas[1][1].type = "attribute"
    /\ last.deltas[1][1].range.start = last.range.start
    /\ last.deltas[1][2].type = "rename"
    /\ last.deltas[1][2].targetPosition = Position("main", <<0>>)
    /\ last.result = <<last.range>>

\* The live ranges the selection holds whose boundaries the step changes.
ChangedRanges ==
    {i \in 1..Len(liveRanges) :
        /\ \E k \in 1..Len(_ranges) : _ranges[k] = i
        /\ RangeOf(liveRanges'[i]) # RangeOf(liveRanges[i])}

\* The change:range events among the events of a call.
RangeEvents(events) == SelectSeq(events, LAMBDA event : event.name = "change:range")

\* The step applies an operation to the document, successfully.
OperationApplied ==
    /\ steps' = steps + 1
    /\ last'.call \in {"applyOperation", "applyReversed"}
    /\ last'.err = ""

\* C30: an operation applied to the document makes the selection fire one
\* change:range event, with directChange false, for each range of the
\* selection whose boundaries it changes, and none when it changes no range
\* of the selection; a changed range that stays in the document is the
\* range of the selection at the same index afterwards.
C30_OneRangeEventPerChangedRange ==
    [][OperationApplied =>
          /\ Len(RangeEvents(last'.events)) = Cardinality(ChangedRanges)
          /\ \A k \in 1..Len(last'.events) :
                 last'.events[k].name = "change:range" => ~last'.events[k].directChange
          /\ \A k \in 1..Len(_ranges) :
                 (/\ _ranges[k] \in ChangedRanges
                  /\ liveRanges'[_ranges[k]].start.root # "graveyard") =>
                     /\ k <= Len(_ranges')
                     /\ _ranges'[k] = _ranges[k]]_vars

\* An insertion, which removes no range from the selection, has made the
\* selection fire more change:range events than it has ranges.
C30_Witness ==
    /\ last.call = "applyOperation"
    /\ last.err = ""
    /\ last.listenerErr = ""
    /\ last.op.type = "insert"
    /\ Len(_ranges) = 1
    /\ Len(RangeEvents(last.events)) = 2

\* The keys whose value or presence differs between two maps of attributes.
DifferingKeys(before, after) ==
    {k \in (DOMAIN before) \cup (DOMAIN after) :
        ~(MapHas(before, k) /\ MapHas(after, k) /\ before[k] = after[k])}

\* The change:attribute events among the events of a call.
AttributeEvents(events) == SelectSeq(events, LAMBDA event : event.name = "change:attribute")

\* Every event of the list names, each once, the keys that differ between
\* the attributes before it (those at the start of the call or at the event
\* before) and the attributes it leaves, of which there is at least one, and
\* the attributes change with an event only.
EventsTellChanges(before, events, after) ==
    /\ \A k \in 1..Len(events) :
           Let(events[k].attributeKeys, LAMBDA keys :
               /\ Len(keys) > 0
               /\ \A i, j \in 1..Len(keys) : keys[i] = keys[j] => i = j
               /\ {keys[i] : i \in 1..Len(keys)}
                      = DifferingKeys(IF k = 1 THEN before ELSE events[k - 1].attrs,
                                      events[k].attrs))
    /\ after = IF events = <<>> THEN before ELSE Last(events).attrs

\* C31: a change:attribute event is fired only when an attribute of the
\* selection has changed, and its attributeKeys are exactly the keys whose
\* value or presence differs between before and after, each once; a call
\* that leaves the attributes as they were (setAttributesTo with the
\* attributes already set, an automatic update to the same attributes)
\* fires no such event.
C31_AttributeEventsAreExact ==
    [][EventsTellChanges(_attrs, AttributeEvents(last'.events), _attrs')]_vars

\* setAttributesTo has replaced one attribute by another: one event names
\* the two keys.
C31_Witness ==
    /\ last.call = "setAttributesTo"
    /\ \E k \in 1..Len(last.events) :
           /\ last.events[k].name = "change:attribute"
           /\ Len(last.events[k].attributeKeys) = 2
           /\ last.events[k].directChange

\* The step is a call of setAttribute that changes the value the selection
\* has for the key.
SetAttributeChangesValue ==
    /\ last'.call = "setAttribute"
    /\ ~(MapHas(_attrs, last'.key) /\ _attrs[last'.key] = last'.value)
    /\ MapHas(_attrs', last'.key) /\ _attrs'[last'.key] = last'.value

\* The call has fired one change:attribute event, for the key alone and
\* with directChange true.
OneDirectEvent ==
    Let(AttributeEvents(last'.events), LAMBDA events :
        /\ Len(events) = 1
        /\ events[1].attributeKeys = <<last'.key>>
        /\ events[1].directChange)

\* C32: a call setAttribute( key, value ) that changes the value the
\* selection has for the key fires exactly one change:attribute event, with
\* attributeKeys [ key ] and directChange true, also when the attribute is
\* stored on the empty element the selection is collapsed in.
C32_SetAttributeFiresOneDirectEvent ==
    [][SetAttributeChangesValue => OneDirectEvent]_vars

\* The same of the calls that store nothing on an element.
C32_DirectEventWhenNothingStored ==
    [][SetAttributeChangesValue /\ last'.op = NoOp => OneDirectEvent]_vars

\* setAttribute has stored the attribute on the empty element and the only
\* change:attribute event of the call comes from the update of the
\* attributes that the change of the document has started.
C32_Witness ==
    /\ last.call = "setAttribute"
    /\ last.op # NoOp
    /\ MapHas(_attrs, last.key) /\ _attrs[last.key] = last.value
    /\ Let(AttributeEvents(last.events), LAMBDA events :
           /\ Len(events) = 1
           /\ events[1].attributeKeys = <<last.key>>
           /\ ~events[1].directChange)

\* The ranges of the selection that the step takes into the graveyard.
MovedToGraveyard ==
    {i \in 1..Len(liveRanges) :
        /\ \E k \in 1..Len(_ranges) : _ranges[k] = i
        /\ liveRanges[i].start.root # "graveyard"
        /\ liveRanges'[i].start.root = "graveyard"}

\* The step applies an operation that takes one of several ranges of the
\* selection into the graveyard, and the listeners return.
OneRangeFixed ==
    /\ OperationApplied
    /\ last'.listenerErr = ""
    /\ Len(_ranges) > 1
    /\ Cardinality(MovedToGraveyard) = 1

\* The selection has as many ranges as before, a new attached range outside
\* the graveyard where the one in `fixed` was, and the others where they
\* were, attached.
FixedInPlace(fixed) ==
    /\ Len(_ranges') = Len(_ranges)
    /\ \A k \in 1..Len(_ranges) :
           k <= Len(_ranges') =>
               IF _ranges[k] \in fixed
               THEN /\ _ranges'[k] > Len(liveRanges)
                    /\ liveRanges'[_ranges'[k]].attached
                    /\ liveRanges'[_ranges'[k]].start.root # "graveyard"
               ELSE /\ _ranges'[k] = _ranges[k]
                    /\ liveRanges'[_ranges[k]].attached

\* C36: when one of several ranges of the selection ends up in the
\* graveyard and is fixed, the selection keeps its number of ranges, the
\* fixed range takes the index of the removed one and every other range
\* stays in the selection, still attached.
C36_FixKeepsOtherRanges ==
    [][OneRangeFixed => FixedInPlace(MovedToGraveyard)]_vars

\* The same when the range that ends up in the graveyard is the last of the
\* selection's ranges.
C36_FixOfLastKeepsOtherRanges ==
    [][OneRangeFixed /\ _ranges[Len(_ranges)] \in MovedToGraveyard
          => FixedInPlace(MovedToGraveyard)]_vars

\* A removal has taken the first of two ranges into the graveyard: the
\* selection is left with the one new range, the removed range is detached
\* and the second range is attached and no longer held.
C36_Witness ==
    /\ last.call = "applyOperation" /\ last.op.type = "remove"
    /\ last.err = "" /\ last.listenerErr = ""
    /\ Len(liveRanges) = 3 /\ _ranges = <<3>>
    /\ ~liveRanges[1].attached /\ liveRanges[1].start.root = "graveyard"
    /\ liveRanges[2].attached /\ liveRanges[3].attached

\* C37: createFromRanges ends and returns a range for every array of one
\* or more ranges no two of which overlap, collapsed ranges and ranges that
\* hold no node included: the loop over the ranges before the reference
\* range reads no element outside the array.
C37_CreateFromRangesReturnsRange ==
    (last.call = "createFromRanges" /\ Len(last.ranges) > 0) =>
        (last.err = "" /\ last.result # NullRange)

\* The same of the arrays whose ranges all hold a node.
C37_ReturnsRangeFromNonEmptyRanges ==
    (/\ last.call = "createFromRanges" /\ Len(last.ranges) > 0
     /\ \A i \in 1..Len(last.ranges) : ~isTouching(roots, last.ranges[i].start,
                                                      last.ranges[i].end)) =>
        (last.err = "" /\ last.result # NullRange)

\* The call has been given a caret and, before it, a range that holds no
\* node and touches it, and has read past the end of the array.
C37_Witness ==
    /\ last.call = "createFromRanges"
    /\ Len(last.ranges) = 2
    /\ isCollapsed(last.ranges[1])
    /\ isBefore(last.ranges[2].start, last.ranges[1].start)
    /\ ~isIntersecting(last.ranges[1], last.ranges[2])
    /\ last.err = "TypeError"

\* The call transforms the range by one operation that is an insertion, a
\* move, a removal or a reinsertion.
BySingleOperation ==
    /\ last.call = "getTransformedByDelta"
    /\ Len(last.deltas[1]) = 1
    /\ last.deltas[1][1].type \in supportedTypes

\* C38: getTransformedByDelta and getTransformedByDeltas return at least
\* one range, and a range transformed by a single insertion, move, removal
\* or reinsertion gives at most three ranges.
C38_OneToThreeRanges ==
    /\ last.call \in {"getTransformedByDelta", "getTransformedByDeltas"}
           => Len(last.result) >= 1
    /\ BySingleOperation => Len(last.result) <= 3

\* A move within the range has split it in three: the part before the
\* target, the moved nodes and the part after them.
C38_Witness ==
    /\ BySingleOperation
    /\ last.deltas[1][1].type = "move"
    /\ Len(last.result) = 3

\* Every object the caller has made is as it was before the call.
PassedObjectsUnchanged ==
    \A ref \in 1..Len(last.before) : last.heap[ref] = last.before[ref]

\* C39: getMinimalFlatRanges does not change the range it is called on
\* (its start and end and their paths are after the call what they were
\* before), and each range it has collected is at the end what it was when
\* it was pushed, although the working position is moved on in place; the
\* ranges are the ones the steps give when each makes a new position.
C39_FlatRangesKeepReceiverAndResults ==
    last.call = "getMinimalFlatRanges" =>
        /\ PassedObjectsUnchanged
        /\ RangeAt(last.heap, last.this) = last.range
        /\ Len(last.result) = Len(last.pushed)
        /\ \A i \in 1..Len(last.result) :
               RangeAt(last.heap, last.result[i]) = last.pushed[i]
        /\ [i \in 1..Len(last.result) |-> RangeAt(last.heap, last.result[i])]
               = getMinimalFlatRanges(roots, last.range)

\* The call has gone up from the start and down to the end, two levels
\* below the root, and has collected a range on the way up and a range on
\* the way down.
C39_Witness ==
    /\ last.call = "getMinimalFlatRanges"
    /\ Len(last.range.start.path) = 2
    /\ Len(last.range.end.path) = 3
    /\ Len(last.result) = 2
    /\ Len(last.heap) > Len(last.before)

\* C40: createFromRanges leaves what it is given as it was: the passed
\* array holds the same ranges in the same order, no passed range has
\* another start or end, and the range returned is a new object.
C40_CreateFromRangesKeepsInput ==
    last.call = "createFromRanges" =>
        /\ PassedObjectsUnchanged
        /\ last.err = "" =>
               /\ last.result > Len(last.before)
               /\ last.heap[last.result].start > Len(last.before)
               /\ last.heap[last.result].end > Len(last.before)

\* The same but for the order of the passed array, which still holds the
\* same ranges; the range returned is the one createFromRanges gives for
\* the ranges as values.
C40_KeepsRangesAndReturnsNew ==
    last.call = "createFromRanges" =>
        /\ \A ref \in 1..Len(last.before) :
               ref # last.array => last.heap[ref] = last.before[ref]
        /\ Len(last.heap[last.array].items) = Len(last.before[last.array].items)
        /\ \A i \in 1..Len(last.before[last.array].items) :
               \E j \in 1..Len(last.heap[last.array].items) :
                   last.heap[last.array].items[j] = last.before[last.array].items[i]
        /\ last.err = createFromRanges(roots, last.ranges, last.sorts).err
        /\ last.err = "" =>
               /\ RangeAt(last.heap, last.result)
                      = createFromRanges(roots, last.ranges, last.sorts).range
               /\ last.result > Len(last.before)
               /\ last.heap[last.result].start > Len(last.before)
               /\ last.heap[last.result].end > Len(last.before)

\* The call has returned a range and has left the passed array in another
\* order than it was given in.
C40_Witness ==
    /\ last.call = "createFromRanges"
    /\ last.err = ""
    /\ last.sorts
    /\ Len(last.ranges) = 3
    /\ last.heap[last.array].items # last.before[last.array].items

\* ------------------------------------------------------------------ C33

FiresEvent(observer, name) ==
    \E i \in 1..Len(observer.events) : observer.events[i].name = name

\* C33: a DOM selectionchange fires selectionChange only if the observer is
\* enabled, the view document is focused and the DOM selection, converted,
\* differs from the view selection; the pending mutations are flushed before
\* the comparison, so none is pending when the event is fired and a
\* selectionchange which came with mutations fires nothing.
C33_SelectionChangeOnlyIfEnabledFocusedDiffering ==
    [][(last'.call = "selectionchange" /\ FiresEvent(last', "selectionChange")) =>
          /\ last.isEnabled
          /\ last.isFocused
          /\ ~last.mutations
          /\ ~last'.mutations
          /\ domSelectionToView(last'.domSelection) # last.viewSelection]_vars

\* A selectionchange to the second DOM place of the other view selection
\* fired selectionChange.
C33_Witness ==
    /\ last.call = "selectionchange"
    /\ FiresEvent(last, "selectionChange")
    /\ last.domSelection = 3
    /\ last.viewSelection = 1

\* ------------------------------------------------------------------ C34

\* The handler reaches the comparison and finds the selections different.
DifferingChange ==
    /\ last'.call = "selectionchange"
    /\ "document" \in last._documents
    /\ last.isEnabled
    /\ last.isFocused
    /\ ~last.mutations
    /\ domSelectionToView(last'.domSelection) # last.viewSelection

\* The step fires nothing, logs the warning and leaves the debounced call alone.
OnlyWarns ==
    /\ last'.events = <<>>
    /\ last'.warns = <<"selectionchange-infinite-loop">>
    /\ last'.pending = last.pending
    /\ last'.untilDone = last.untilDone
    /\ last'.doneData = last.doneData

C35_SelectionChangeDoneAfterQuietTime ==
    [][FiresEvent(last', "selectionChangeDone") =>
          /\ last.lastData # NoData
          /\ last'.sinceChange * TickLength >= DebounceWait
          /\ last'.events = <<[name |-> "selectionChangeDone", data |-> last.lastData]>>
          /\ last.doneSinceChange = 0
          /\ ~last.destroyed]_vars

\* selectionChangeDone is fired 300 ms into a period or earlier, after two or
\* more selectionChange events of that period: they were less than 200 ms
\* apart.
C35_Witness ==
    /\ last.call = "tick"
    /\ FiresEvent(last, "selectionChangeDone")
    /\ last.firedSinceClear >= 2
    /\ (ClearInterval - last.untilClear * TickLength) <= DebounceWait + TickLength
    /\ last.doneSinceChange = 1

=============================================================================
